---- MODULE Spec2Model ----
(***************************************************************************)
(* Model of the hybrid item-mention extraction and consensus engine of     *)
(* surge: the candidate validator (src/itemValidator.js), the lexical      *)
(* matcher and hybrid combiner (src/hybridExtractor.js) and the voting     *)
(* engine built on top of them.                                            *)
(*                                                                         *)
(* Strings are sequences of one-character strings.  Numbers that the code  *)
(* keeps as floats (confidences, ratios) are exact fractions               *)
(* [n |-> numerator, d |-> denominator] in lowest terms.                   *)
(*                                                                         *)
(* A value that the code stores in a local variable and reads several      *)
(* times is passed as an operator argument, so that it is computed once.   *)
(***************************************************************************)
EXTENDS Integers, Sequences, FiniteSets, TLC

(***************************************************************************)
(* Bounds of the model.                                                    *)
(***************************************************************************)
\* longest catalog handed to the validator
MaxCatalog == 2
\* longest candidate list handed to the validator
MaxCands == 2

\* the largest number of candidates in an oracle extraction response
MaxOracleItems == 2

\* the largest number of entries in an oracle confirmation response
MaxValidItems == 2

\* longest catalog handed to the lexical matcher alone
MaxLexCatalog == 2

\* the largest maxRetries withRetry is called with
MaxRetriesTried == 3

\* the number of clock steps the item cache is watched for
MaxClockSteps == 6

\* the largest number of posts in the Post table
MaxPosts == 2

\* the largest number of significant items extracted from one post
MaxSignificantItems == 2

\* the number of times the pipeline timer fires
MaxPipelineCalls == 3

(***************************************************************************)
(* Strings.                                                                *)
(***************************************************************************)
UpperLetters == <<"A", "B", "C", "D", "E", "F", "G", "H", "I", "J", "K", "L", "M",
                  "N", "O", "P", "Q", "R", "S", "T", "U", "V", "W", "X", "Y", "Z">>

LowerLetters == <<"a", "b", "c", "d", "e", "f", "g", "h", "i", "j", "k", "l", "m",
                  "n", "o", "p", "q", "r", "s", "t", "u", "v", "w", "x", "y", "z">>

\* String.prototype.toLowerCase on one character
LowerChar(c) ==
  IF \E i \in 1..26 : UpperLetters[i] = c
    THEN LowerLetters[CHOOSE i \in 1..26 : UpperLetters[i] = c]
    ELSE c

\* String.prototype.toLowerCase
ToLowerCase(s) == [i \in 1..Len(s) |-> LowerChar(s[i])]

\* the regular expression class \s (the model's only whitespace is the space)
IsSpace(c) == c = " "

\* String.prototype.includes(ch) for a single character
IncludesChar(s, c) == \E i \in 1..Len(s) : s[i] = c

\* the smallest / the largest element of a non-empty set of integers
MinOf(S) == CHOOSE i \in S : \A j \in S : i <= j

MaxOf(S) == CHOOSE i \in S : \A j \in S : j <= i

\* positions of s that hold a non-whitespace character
NonSpaceAt(s) == {i \in 1..Len(s) : ~IsSpace(s[i])}

\* s cut down to the span of the given (non-whitespace) positions
TrimTo(s, nonSpace) ==
  IF nonSpace = {} THEN <<>> ELSE SubSeq(s, MinOf(nonSpace), MaxOf(nonSpace))

\* String.prototype.trim
Trim(s) == TrimTo(s, NonSpaceAt(s))

RECURSIVE ReplaceChar(_, _, _)
\* s.replace(/c/g, r) for a single character c and a replacement string r
ReplaceChar(s, c, r) ==
  IF s = <<>> THEN <<>>
  ELSE (IF Head(s) = c THEN r ELSE <<Head(s)>>) \o ReplaceChar(Tail(s), c, r)

RECURSIVE CollapseSpaces(_)
\* s.replace(/\s+/g, ' ')
CollapseSpaces(s) ==
  IF s = <<>> THEN <<>>
  ELSE IF IsSpace(Head(s)) /\ Len(s) > 1 /\ IsSpace(s[2])
    THEN CollapseSpaces(Tail(s))
    ELSE <<Head(s)>> \o CollapseSpaces(Tail(s))

\* the opening parentheses that a match of /\([^)]*\)\s*$/ can start at,
\* closeAt being the position of the last non-whitespace character
OpenParensFor(s, closeAt) ==
  IF s[closeAt] = ")"
    THEN {p \in 1..(closeAt - 1) :
            s[p] = "(" /\ \A j \in (p + 1)..(closeAt - 1) : s[j] # ")"}
    ELSE {}

\* s up to the whitespace run in front of position open (the \s* of the match)
CutBeforeParen(s, open) ==
  SubSeq(s, 1, MaxOf({k \in 0..(open - 1) : k = 0 \/ ~IsSpace(s[k])}))

\* s with the leftmost match removed, opens being the candidate "("
StripAtLeftmost(s, opens) ==
  IF opens = {} THEN s ELSE CutBeforeParen(s, MinOf(opens))

\* the same, nonSpace being the non-whitespace positions of s
StripParensIn(s, nonSpace) ==
  IF nonSpace = {} THEN s
  ELSE StripAtLeftmost(s, OpenParensFor(s, MaxOf(nonSpace)))

\* s.replace(/\s*\([^)]*\)\s*$/, ''): the leftmost match is removed.  A match
\* is: a run of whitespace, "(", characters other than ")", ")", a run of
\* whitespace, the end of the string.
StripTrailingParens(s) == StripParensIn(s, NonSpaceAt(s))

Min2(a, b) == IF a <= b THEN a ELSE b

Min3(a, b, c) == Min2(a, Min2(b, c))

\* the inner loop body of levenshteinDistance: matrix[i][j] from row i-1
\* (prev), the cells matrix[i][0..j-1] of row i (row), and whether
\* b.charAt(i-1) === a.charAt(j-1); column j is at index j + 1
levenshteinCell(prev, row, j, same) ==
  IF same THEN prev[j]
  ELSE Min3(prev[j] + 1,      \* substitution
            row[j] + 1,       \* insertion
            prev[j + 1] + 1)  \* deletion

RECURSIVE levenshteinRow(_, _, _, _)
\* the inner loop "for (j = 1; j <= a.length; j++)" continued from the cells
\* row = matrix[i][0..j-1], j = Len(row)
levenshteinRow(prev, a, bc, row) ==
  IF Len(row) > Len(a) THEN row
  ELSE levenshteinRow(prev, a, bc,
                      Append(row, levenshteinCell(prev, row, Len(row), bc = a[Len(row)])))

RECURSIVE levenshteinMatrix(_, _, _)
\* the outer loop "for (i = 1; i <= b.length; i++)" continued from the rows
\* matrix[0..i-1], i = Len(matrix); row i starts as [i]
levenshteinMatrix(a, b, matrix) ==
  IF Len(matrix) > Len(b) THEN matrix
  ELSE levenshteinMatrix(a, b,
                         Append(matrix,
                                levenshteinRow(matrix[Len(matrix)], a, b[Len(matrix)],
                                               <<Len(matrix)>>)))

\* levenshteinDistance: matrix[b.length][a.length]; row 0 is 0, 1, ..., a.length
levenshteinDistance(a, b) ==
  levenshteinMatrix(a, b, << [j \in 1..(Len(a) + 1) |-> j - 1] >>)[Len(b) + 1][Len(a) + 1]

\* normalizeName
normalizeName(name) ==
  Trim(CollapseSpaces(ReplaceChar(StripTrailingParens(ToLowerCase(name)), "-", <<" ">>)))

\* whether list holds x
SeqContains(list, x) == \E i \in 1..Len(list) : list[i] = x

\* Set.prototype.add on a set kept as the sequence of its elements in
\* insertion order
SetAdd(list, x) == IF SeqContains(list, x) THEN list ELSE Append(list, x)

RECURSIVE Dedupe(_)
\* [...new Set(list)]: the first occurrence of each element, in order
Dedupe(list) ==
  IF list = <<>> THEN <<>>
  ELSE SetAdd(Dedupe(SubSeq(list, 1, Len(list) - 1)), list[Len(list)])

\* the variants pushed by getNameVariants for base = name.toLowerCase().trim()
\* and noParens = base without its trailing parentheses, trimmed
nameVariantsOf(base, noParens) ==
  <<base>>
  \o (IF IncludesChar(base, "-")
        THEN <<ReplaceChar(base, "-", <<" ">>), ReplaceChar(base, "-", <<>>)>>
        ELSE <<>>)
  \o (IF IncludesChar(base, " ")
        THEN <<ReplaceChar(base, " ", <<"-">>), ReplaceChar(base, " ", <<>>)>>
        ELSE <<>>)
  \o (IF IncludesChar(base, "'") THEN <<ReplaceChar(base, "'", <<>>)>> ELSE <<>>)
  \o (IF noParens # base THEN <<noParens>> ELSE <<>>)

\* getNameVariants for a lowercased, trimmed base
variantsOfBase(base) == Dedupe(nameVariantsOf(base, Trim(StripTrailingParens(base))))

\* getNameVariants
getNameVariants(name) == variantsOfBase(Trim(ToLowerCase(name)))

(***************************************************************************)
(* Candidate validator (src/itemValidator.js).                             *)
(***************************************************************************)
\* "no item": the null / undefined of a failed lookup
Null == [id |-> 0, name |-> <<>>]

\* the entry of allItems at the first / at the last of the given positions
FirstAt(allItems, hits) == IF hits = {} THEN Null ELSE allItems[MinOf(hits)]

LastAt(allItems, hits) == IF hits = {} THEN Null ELSE allItems[MaxOf(hits)]

\* exactMapGet with the catalog name compared as written (not lowercased)
exactMapGetCaseSensitive(allItems, key) ==
  LastAt(allItems, {i \in 1..Len(allItems) : allItems[i].name = key})

\* exactMap.get(key): exactMap.set(lower, item) overwrites, so the last
\* catalog entry with that lowercased name is the one stored
exactMapGet(allItems, key) ==
  LastAt(allItems, {i \in 1..Len(allItems) : ToLowerCase(allItems[i].name) = key})

\* normalizedMap.get(key): set only when the key is absent, so the first
\* catalog entry with that normalized name is the one stored
normalizedMapGet(allItems, key) ==
  FirstAt(allItems, {i \in 1..Len(allItems) : normalizeName(allItems[i].name) = key})

\* variantMap.get(key): the first catalog entry one of whose variants is key
variantMapGet(allItems, key) ==
  FirstAt(allItems, {i \in 1..Len(allItems) :
                       SeqContains(getNameVariants(allItems[i].name), key)})

\* a, or b when a is null (b is read only then)
OrElse(a, b) == IF a # Null THEN a ELSE b

RECURSIVE variantLoop(_, _, _)
\* the loop over candidateVariants from position v on: the entry of the
\* first variant the variant map knows
variantLoop(allItems, variants, v) ==
  IF v > Len(variants) THEN Null
  ELSE OrElse(variantMapGet(allItems, variants[v]), variantLoop(allItems, variants, v + 1))

\* the variant branch for a candidate's variants
variantLookup(allItems, variants) == variantLoop(allItems, variants, 1)

\* closestStep with "distance <= bestDistance": the last of equals wins
closestStepLastWins(prev, item, distance, maxDistance) ==
  IF (prev.bestDistance = -1 \/ distance <= prev.bestDistance) /\ distance <= maxDistance
    THEN [bestMatch |-> item, bestDistance |-> distance]
    ELSE prev

\* one iteration of findClosestMatch's loop: prev = [bestMatch, bestDistance]
\* (bestDistance = -1 standing for Infinity), distance that of item
closestStep(prev, item, distance, maxDistance) ==
  IF (prev.bestDistance = -1 \/ distance < prev.bestDistance) /\ distance <= maxDistance
    THEN [bestMatch |-> item, bestDistance |-> distance]
    ELSE prev

RECURSIVE closestLoop(_, _, _, _)
\* the loop of findClosestMatch over items[1..k]
closestLoop(normalizedCandidate, items, maxDistance, k) ==
  IF k = 0 THEN [bestMatch |-> Null, bestDistance |-> -1]
  ELSE closestStep(closestLoop(normalizedCandidate, items, maxDistance, k - 1),
                   items[k],
                   levenshteinDistance(normalizedCandidate, ToLowerCase(items[k].name)),
                   maxDistance)

\* findClosestMatch
findClosestMatch(candidateName, items, maxDistance) ==
  closestLoop(ToLowerCase(candidateName), items, maxDistance, Len(items)).bestMatch

\* the fuzzy threshold passed by validateItemCandidates
FuzzyMaxDistance == 2

\* a cascade that tries the fuzzy lookup before the normalized one
cascadeFuzzyFirst(exact, normalized, variant, fuzzy) ==
  IF exact # Null THEN [match |-> exact, branch |-> "exact"]
  ELSE IF fuzzy # Null THEN [match |-> fuzzy, branch |-> "fuzzy"]
  ELSE IF normalized # Null THEN [match |-> normalized, branch |-> "normalized"]
  ELSE IF variant # Null THEN [match |-> variant, branch |-> "variant"]
  ELSE [match |-> Null, branch |-> "none"]

\* the cascade "if (!match) ..." over the results of the four lookups (a
\* later one is read only when the earlier ones are null)
cascade(exact, normalized, variant, fuzzy) ==
  IF exact # Null THEN [match |-> exact, branch |-> "exact"]
  ELSE IF normalized # Null THEN [match |-> normalized, branch |-> "normalized"]
  ELSE IF variant # Null THEN [match |-> variant, branch |-> "variant"]
  ELSE IF fuzzy # Null THEN [match |-> fuzzy, branch |-> "fuzzy"]
  ELSE [match |-> Null, branch |-> "none"]

\* the matching cascade of validateItemCandidates for one candidate: the
\* matched item and the branch that assigned it
resolveCandidate(candidate, allItems) ==
  cascade(exactMapGet(allItems, ToLowerCase(candidate.name)),
          normalizedMapGet(allItems, normalizeName(candidate.name)),
          variantLookup(allItems, getNameVariants(candidate.name)),
          findClosestMatch(candidate.name, allItems, FuzzyMaxDistance))

\* the element pushed for a candidate and its match: the candidate's fields
\* ("...candidate"), then itemId and itemName
validatedEntry(candidate, match) ==
  [name       |-> candidate.name,
   snippet    |-> candidate.snippet,
   context    |-> candidate.context,
   confidence  |-> candidate.confidence,
   mentionType |-> candidate.mentionType,
   itemId     |-> match.id,
   itemName   |-> match.name]

\* pushValidated without the seenItemIds test
pushValidatedNoDedup(acc, candidate, match) ==
  IF match # Null
    THEN [validated   |-> Append(acc.validated, validatedEntry(candidate, match)),
          seenItemIds |-> acc.seenItemIds \cup {match.id}]
    ELSE acc

\* pushValidated without the null test: an unmatched candidate is pushed
\* under its own free-text name
pushValidatedKeepsUnmatched(acc, candidate, match) ==
  IF match.id \notin acc.seenItemIds
    THEN [validated   |-> Append(acc.validated,
                                 validatedEntry(candidate,
                                                IF match = Null
                                                  THEN [id |-> 0, name |-> candidate.name]
                                                  ELSE match)),
          seenItemIds |-> acc.seenItemIds \cup {match.id}]
    ELSE acc

\* the tail of the loop body: push the candidate unless nothing matched or
\* the matched id was already seen
pushValidated(acc, candidate, match) ==
  IF match # Null /\ match.id \notin acc.seenItemIds
    THEN [validated   |-> Append(acc.validated, validatedEntry(candidate, match)),
          seenItemIds |-> acc.seenItemIds \cup {match.id}]
    ELSE acc

RECURSIVE validateLoop(_, _, _)
\* validated and seenItemIds after the first k candidates
validateLoop(candidates, allItems, k) ==
  IF k = 0 THEN [validated |-> <<>>, seenItemIds |-> {}]
  ELSE pushValidated(validateLoop(candidates, allItems, k - 1),
                     candidates[k],
                     resolveCandidate(candidates[k], allItems).match)

\* validateItemCandidates
validateItemCandidates(candidates, allItems) ==
  validateLoop(candidates, allItems, Len(candidates)).validated

(***************************************************************************)
(* Numbers.  A JavaScript number that is a confidence, a threshold or a    *)
(* ratio is kept as the exact fraction n/d in lowest terms with d > 0: the *)
(* comparisons the code makes between quotients of small integers are the  *)
(* comparisons of these fractions.                                         *)
(***************************************************************************)
Abs(x) == IF x < 0 THEN -x ELSE x

RECURSIVE GCD(_, _)
GCD(a, b) == IF b = 0 THEN a ELSE GCD(b, a % b)

\* n/d with both divided by g
reduceBy(n, d, g) == [n |-> n \div g, d |-> d \div g]

\* the fraction n/d (d > 0) in lowest terms
Frac(n, d) == reduceBy(n, d, GCD(Abs(n), d))

\* a < b and a <= b
FLess(a, b) == a.n * b.d < b.n * a.d
FLeq(a, b) == a.n * b.d <= b.n * a.d

\* Math.max and Math.min
FMax(a, b) == IF FLess(a, b) THEN b ELSE a
FMin(a, b) == IF FLess(b, a) THEN b ELSE a

\* a + b, a * b and a / k for an integer k > 0
FAdd(a, b) == Frac(a.n * b.d + b.n * a.d, a.d * b.d)
FMul(a, b) == Frac(a.n * b.n, a.d * b.d)
FDivInt(a, k) == Frac(a.n, a.d * k)

\* a confidence field that is absent (undefined)
NoConfidence == [n |-> 0, d |-> 0]

\* "item.confidence ?? dflt"
ConfidenceOr(c, dflt) == IF c = NoConfidence THEN dflt ELSE c

(***************************************************************************)
(* State.                                                                  *)
(***************************************************************************)
VARIABLES
  \* one call of validateItemCandidates
  vPc,          \* "idle" before the call, "done" once it has returned
  vAllItems,    \* its allItems argument
  vCandidates,  \* its candidates argument
  vValidated,   \* the list it returned
  vResolved,    \* per candidate, the item the cascade matched and the branch
  \* one call of hybridExtract, hybridExtractWithVoting or
  \* _hybridExtractInlineVoting
  cPc,          \* "idle", "running", "returned" or "rejected"
  cEntry,       \* the function called
  cContent,     \* its cleanedContent argument
  cAllItems,    \* its allItems / significantItems argument
  cGreedy,      \* GREEDY_MATCHING
  cNumRuns,     \* its numRuns argument (1 for hybridExtract)
  cThreshold,   \* its votingThreshold argument
  cRuns,        \* the runs it started, see startRun
  cResult,      \* what it returned
  cOracle,      \* per run, what its oracle requests got, see received
  \* calls of algorithmicSearch
  lPc,          \* "idle", "called" (once), "between" (another call made), "again"
  lContent,     \* the content argument of the first and of the repeated call
  lAllItems,    \* their allItems argument
  lGreedy,      \* their greedy argument
  lLast,        \* the Map built by the most recent call, whatever its arguments
  lFirst,       \* what the first call returned
  lSecond,      \* what the repeated call returned
  lCalls,       \* the number of calls made so far
  \* the environment hybridExtractor.js is loaded in
  envRuns,      \* process.env.VOTING_RUNS, a string or Undefined
  envThreshold, \* process.env.VOTING_THRESHOLD, a string or Undefined
  \* one call of withRetry and what its caller does with the result
  rPc,          \* "idle", "attempting", "sleeping", "returned", "thrown",
                \* "parsed" or "malformed"
  rOptions,     \* its options argument
  rAttempt,     \* the loop variable attempt
  rCalls,       \* the number of times fn has been invoked
  lastError,    \* the variable lastError
  rDelay,       \* the delay of the latest sleep
  rSleeps,      \* the number of sleeps started
  rSettled,     \* the value returned or the error thrown
  \* the item cache of src/index.js, times in milliseconds
  clock,        \* Date.now()
  itemCache,    \* the object itemCache; a list is the time it was fetched at
  served,       \* the latest list a cached getter returned, and when
  \* the post pipeline of src/index.js
  pipelineRunning, \* the flag pipelineRunning
  pPosts,       \* the Post table: per post id, isAnalyzed and what
                \* processOnePost returned for it
  pRuns,        \* the calls of runPostPipeline that passed the flag test
  pSkipped      \* the number of calls that found the flag set and returned

validatorVars == <<vPc, vAllItems, vCandidates, vValidated, vResolved>>

callVars == <<cPc, cEntry, cContent, cAllItems, cGreedy, cNumRuns, cThreshold, cRuns, cResult, cOracle>>

lexicalVars == <<lPc, lContent, lAllItems, lGreedy, lLast, lFirst, lSecond, lCalls>>

configVars == <<envRuns, envThreshold>>

\* the variables no step of a validator call, an extraction call or a
\* lexical call changes
retryVars == <<rPc, rOptions, rAttempt, rCalls, lastError, rDelay, rSleeps, rSettled>>

cacheVars == <<clock, itemCache, served>>

pipelineVars == <<pipelineRunning, pPosts, pRuns, pSkipped>>

restVars == <<configVars, retryVars, cacheVars, pipelineVars>>

\* an environment variable that is not set
Undefined == <<"undefined">>

\* the environment is not under study
ConfigUnused ==
  /\ envRuns = Undefined
  /\ envThreshold = Undefined

\* withRetry is not under study
RetryUnused ==
  /\ rPc = "unused"
  /\ rOptions = <<>>
  /\ rAttempt = 0
  /\ rCalls = 0
  /\ lastError = <<>>
  /\ rDelay = 0
  /\ rSleeps = 0
  /\ rSettled = <<>>

\* the item cache is not under study
CacheUnused ==
  /\ clock = 0
  /\ itemCache = <<>>
  /\ served = <<>>

\* the post pipeline is not under study
PipelineUnused ==
  /\ pipelineRunning = FALSE
  /\ pPosts = <<>>
  /\ pRuns = <<>>
  /\ pSkipped = 0

\* nothing but a validator call, an extraction call or a lexical call is
\* under study
RestUnused == ConfigUnused /\ RetryUnused /\ CacheUnused /\ PipelineUnused

\* the validator is not under study
ValidatorUnused ==
  /\ vPc = "unused"
  /\ vAllItems = <<>>
  /\ vCandidates = <<>>
  /\ vValidated = <<>>
  /\ vResolved = <<>>

\* no extraction call is under study
CallUnused ==
  /\ cPc = "unused"
  /\ cEntry = "none"
  /\ cContent = <<>>
  /\ cAllItems = <<>>
  /\ cGreedy = FALSE
  /\ cNumRuns = 0
  /\ cThreshold = [n |-> 0, d |-> 1]
  /\ cRuns = <<>>
  /\ cResult = <<>>
  /\ cOracle = <<>>


\* no call of the lexical matcher alone is under study
LexicalUnused ==
  /\ lPc = "unused"
  /\ lContent = <<>>
  /\ lAllItems = <<>>
  /\ lGreedy = FALSE
  /\ lLast = <<>>
  /\ lFirst = <<>>
  /\ lSecond = <<>>
  /\ lCalls = 0

(***************************************************************************)
(* Lexical matcher (algorithmicSearch in src/hybridExtractor.js).          *)
(***************************************************************************)
\* MIN_ALGO_SEARCH_LENGTH
MIN_ALGO_SEARCH_LENGTH == 4

\* the shortest greedy prefix that is tried ("if (prefix.length < 4) continue")
MinPrefixLength == 4

\* ALGO_BLOCKLIST: names never searched for
ALGO_BLOCKLIST ==
  { <<"a", "s", "h">>,
    <<"g", "r", "a", "c", "e">>,
    <<"a", "c", "o", "r", "n">>,
    <<"p", "u", "m", "p", "k", "i", "n">>,
    <<"m", "o", "d">>,
    <<"l", "o", "g", "s">>,
    <<"l", "o", "g">>,
    <<"g", "o", "l", "d">>,
    <<"c", "o", "a", "l">>,
    <<"f", "i", "s", "h">>,
    <<"s", "e", "e", "d">>,
    <<"s", "e", "e", "d", "s">>,
    <<"c", "o", "i", "n">>,
    <<"c", "o", "i", "n", "s">>,
    <<"o", "r", "e">>,
    <<"b", "a", "r">>,
    <<"r", "u", "n", "e">>,
    <<"r", "u", "n", "e", "s">>,
    <<"c", "a", "p", "e">>,
    <<"h", "a", "t">>,
    <<"r", "i", "n", "g">>,
    <<"s", "t", "a", "f", "f">>,
    <<"s", "w", "o", "r", "d">>,
    <<"s", "h", "i", "e", "l", "d">>,
    <<"h", "e", "l", "m">>,
    <<"b", "o", "o", "t", "s">>,
    <<"g", "l", "o", "v", "e", "s">>,
    <<"b", "o", "d", "y">>,
    <<"l", "e", "g", "s">>,
    <<"p", "l", "a", "t", "e">>,
    <<"c", "h", "a", "i", "n">>,
    <<"b", "r", "o", "n", "z", "e">>,
    <<"i", "r", "o", "n">>,
    <<"s", "t", "e", "e", "l">>,
    <<"b", "l", "a", "c", "k">>,
    <<"w", "h", "i", "t", "e">>,
    <<"m", "i", "t", "h", "r", "i", "l">>,
    <<"a", "d", "a", "m", "a", "n", "t">>,
    <<"d", "r", "a", "g", "o", "n">>,
    <<"r", "e", "d">>,
    <<"b", "l", "u", "e">>,
    <<"g", "r", "e", "e", "n">>,
    <<"y", "e", "l", "l", "o", "w">>,
    <<"p", "u", "r", "p", "l", "e">>,
    <<"o", "r", "a", "n", "g", "e">>,
    <<"p", "i", "n", "k">>,
    <<"g", "r", "e", "y">>,
    <<"g", "r", "a", "y">>,
    <<"a", "t", "t", "a", "c", "k">>,
    <<"d", "e", "f", "e", "n", "c", "e">>,
    <<"d", "e", "f", "e", "n", "s", "e">>,
    <<"s", "t", "r", "e", "n", "g", "t", "h">>,
    <<"m", "a", "g", "i", "c">>,
    <<"p", "r", "a", "y", "e", "r">>,
    <<"r", "a", "n", "g", "e">>,
    <<"r", "a", "n", "g", "e", "d">>,
    <<"h", "i", "t", "p", "o", "i", "n", "t", "s">>,
    <<"m", "i", "n", "i", "n", "g">>,
    <<"s", "m", "i", "t", "h", "i", "n", "g">>,
    <<"f", "i", "s", "h", "i", "n", "g">>,
    <<"c", "o", "o", "k", "i", "n", "g">>,
    <<"w", "o", "o", "d", "c", "u", "t", "t", "i", "n", "g">>,
    <<"f", "i", "r", "e", "m", "a", "k", "i", "n", "g">>,
    <<"c", "r", "a", "f", "t", "i", "n", "g">>,
    <<"f", "l", "e", "t", "c", "h", "i", "n", "g">>,
    <<"h", "e", "r", "b", "l", "o", "r", "e">>,
    <<"a", "g", "i", "l", "i", "t", "y">>,
    <<"t", "h", "i", "e", "v", "i", "n", "g">>,
    <<"s", "l", "a", "y", "e", "r">>,
    <<"f", "a", "r", "m", "i", "n", "g">>,
    <<"r", "u", "n", "e", "c", "r", "a", "f", "t">>,
    <<"h", "u", "n", "t", "e", "r">>,
    <<"c", "o", "n", "s", "t", "r", "u", "c", "t", "i", "o", "n">>,
    <<"t", "e", "a", "m">>,
    <<"f", "o", "o", "d">>,
    <<"i", "t", "e", "m">>,
    <<"i", "t", "e", "m", "s">>,
    <<"g", "a", "m", "e">>,
    <<"q", "u", "e", "s", "t">>,
    <<"s", "k", "i", "l", "l">>,
    <<"d", "r", "o", "p">>,
    <<"r", "a", "t", "e">>,
    <<"c", "h", "a", "n", "c", "e">>,
    <<"u", "p", "d", "a", "t", "e">>,
    <<"p", "a", "t", "c", "h">>,
    <<"f", "i", "x">>,
    <<"c", "h", "a", "n", "g", "e">>,
    <<"b", "u", "f", "f">>,
    <<"n", "e", "r", "f">>,
    <<"b", "a", "n">>,
    <<"b", "l", "o", "c", "k">>,
    <<"t", "r", "a", "d", "e">>,
    <<"s", "p", "l", "i", "t">>,
    <<"m", "a", "p">>,
    <<"l", "i", "g", "h", "t">>,
    <<"r", "o", "c", "k">>,
    <<"s", "h", "a", "d", "e">>,
    <<"w", "o", "r", "l", "d">>,
    <<"l", "e", "v", "e", "l">>,
    <<"b", "o", "s", "s">>,
    <<"m", "o", "n", "s", "t", "e", "r">>,
    <<"p", "l", "a", "y", "e", "r">>,
    <<"a", "c", "c", "o", "u", "n", "t">> }

\* SINGLE_WORD_BLOCKLIST: one-word greedy prefixes never accepted
SINGLE_WORD_BLOCKLIST ==
  { <<"a", "n", "c", "i", "e", "n", "t">>,
    <<"b", "l", "o", "o", "d">>,
    <<"c", "h", "a", "o", "s">>,
    <<"c", "o", "m", "b", "a", "t">>,
    <<"d", "a", "r", "k">>,
    <<"d", "e", "m", "o", "n">>,
    <<"d", "r", "a", "g", "o", "n">>,
    <<"f", "i", "r", "e">>,
    <<"h", "o", "l", "y">>,
    <<"l", "i", "g", "h", "t">>,
    <<"m", "a", "s", "t", "e", "r">>,
    <<"n", "a", "t", "u", "r", "e">>,
    <<"s", "h", "a", "d", "o", "w">>,
    <<"s", "o", "u", "l">>,
    <<"s", "p", "i", "r", "i", "t">>,
    <<"s", "u", "p", "e", "r">>,
    <<"d", "e", "a", "t", "h">>,
    <<"e", "a", "r", "t", "h">>,
    <<"w", "a", "t", "e", "r">>,
    <<"s", "m", "o", "k", "e">>,
    <<"s", "t", "e", "a", "m">>,
    <<"d", "u", "s", "t">>,
    <<"l", "a", "v", "a">>,
    <<"m", "u", "d">>,
    <<"l", "o", "n", "g">>,
    <<"s", "h", "o", "r", "t">>,
    <<"s", "m", "a", "l", "l">>,
    <<"l", "a", "r", "g", "e">>,
    <<"b", "i", "r", "d">>,
    <<"s", "p", "o", "t", "t", "e", "d">>,
    <<"a", "b", "y", "s", "s", "a", "l">>,
    <<"b", "l", "e", "s", "s", "e", "d">>,
    <<"c", "r", "y", "s", "t", "a", "l">>,
    <<"d", "i", "v", "i", "n", "e">>,
    <<"e", "l", "i", "t", "e">>,
    <<"i", "n", "f", "e", "r", "n", "a", "l">>,
    <<"m", "y", "s", "t", "i", "c">>,
    <<"a", "r", "c", "a", "n", "e">>,
    <<"b", "a", "r", "r", "o", "w", "s">>,
    <<"b", "a", "n", "d", "o", "s">>,
    <<"t", "w", "i", "s", "t", "e", "d">>,
    <<"e", "c", "l", "i", "p", "s", "e">>,
    <<"c", "a", "n", "n", "o", "n">>,
    <<"r", "i", "n", "g">>,
    <<"n", "e", "c", "k", "l", "a", "c", "e">>,
    <<"b", "r", "a", "c", "e", "l", "e", "t">>,
    <<"a", "m", "u", "l", "e", "t">>,
    <<"g", "a", "m", "e", "s">>,
    <<"s", "k", "i", "l", "l", "s">> }

\* MULTI_WORD_BLOCKLIST: greedy prefixes of two or more words never accepted
MULTI_WORD_BLOCKLIST ==
  { <<"b", "l", "o", "o", "d", " ", "m", "o", "o", "n">>,
    <<"e", "c", "l", "i", "p", "s", "e", " ", "m", "o", "o", "n">>,
    <<"b", "l", "u", "e", " ", "m", "o", "o", "n">>,
    <<"r", "i", "n", "g", " ", "o", "f">>,
    <<"n", "e", "c", "k", "l", "a", "c", "e", " ", "o", "f">>,
    <<"o", "l", "d", " ", "s", "c", "h", "o", "o", "l">> }

Digits == {"0", "1", "2", "3", "4", "5", "6", "7", "8", "9"}

\* the regular expression class \w
IsWordChar(c) ==
  \/ \E i \in 1..26 : UpperLetters[i] = c \/ LowerLetters[i] = c
  \/ c \in Digits
  \/ c = "_"

\* whether position p of s (1-based) holds a \w character; outside s: no
WordAt(s, p) == p >= 1 /\ p <= Len(s) /\ IsWordChar(s[p])

\* String.prototype.includes
Includes(s, sub) ==
  \E p \in 1..(Len(s) - Len(sub) + 1) : SubSeq(s, p, p + Len(sub) - 1) = sub

\* new RegExp(`\\b${escapeRegex(phrase)}\\b`, 'i').test(content): the phrase
\* occurs literally, letter case ignored, with a word boundary (\w next to
\* non-\w or to an end of the string) in front of it and behind it
WordBoundaryTest(content, phrase) ==
  \E p \in 1..(Len(content) - Len(phrase) + 1) :
    /\ \A q \in 1..Len(phrase) : LowerChar(content[p + q - 1]) = LowerChar(phrase[q])
    /\ WordAt(content, p - 1) # WordAt(content, p)
    /\ WordAt(content, p + Len(phrase) - 1) # WordAt(content, p + Len(phrase))

RECURSIVE StripPossessives(_, _)
\* s.replace(/'s\b/g, '') from position p on
StripPossessives(s, p) ==
  IF p > Len(s) THEN <<>>
  ELSE IF s[p] = "'" /\ p < Len(s) /\ s[p + 1] = "s" /\ ~WordAt(s, p + 2)
    THEN StripPossessives(s, p + 2)
    ELSE <<s[p]>> \o StripPossessives(s, p + 1)

\* the position of the first whitespace of s, Len(s) + 1 when there is none
FirstSpace(s) == MinOf({i \in 1..Len(s) : IsSpace(s[i])} \cup {Len(s) + 1})

RECURSIVE SplitWords(_)
\* the first word of s, which ends in front of position stop, then the
\* words of the rest
SplitAt(s, stop) == <<SubSeq(s, 1, stop - 1)>> \o SplitWords(SubSeq(s, stop, Len(s)))

\* s.split(/\s+/).filter((w) => w.length > 0)
SplitWords(s) ==
  IF s = <<>> THEN <<>>
  ELSE IF IsSpace(Head(s)) THEN SplitWords(Tail(s))
  ELSE SplitAt(s, FirstSpace(s))

RECURSIVE JoinWords(_, _)
\* words.slice(0, len).join(' ')
JoinWords(words, len) ==
  IF len = 0 THEN <<>>
  ELSE IF len = 1 THEN words[1]
  ELSE JoinWords(words, len - 1) \o <<" ">> \o words[len]

\* one iteration of the greedy loop without the single-word blocklist
tryPrefixAnySingleWord(content, prefix, len, rest) ==
  IF /\ Len(prefix) >= MinPrefixLength
     /\ prefix \notin ALGO_BLOCKLIST
     /\ ~(len >= 2 /\ prefix \in MULTI_WORD_BLOCKLIST)
     /\ WordBoundaryTest(content, prefix)
    THEN prefix
    ELSE rest

\* one iteration of the greedy loop: the prefix of len words when it passes
\* the length, blocklist and word-boundary tests, else what the shorter
\* prefixes give (rest)
tryPrefix(content, prefix, len, rest) ==
  IF /\ Len(prefix) >= MinPrefixLength
     /\ prefix \notin ALGO_BLOCKLIST
     /\ ~(len = 1 /\ prefix \in SINGLE_WORD_BLOCKLIST)
     /\ ~(len >= 2 /\ prefix \in MULTI_WORD_BLOCKLIST)
     /\ WordBoundaryTest(content, prefix)
    THEN prefix
    ELSE rest

RECURSIVE shortestFrom(_, _, _, _)
\* the greedy loop run from k words upwards
shortestFrom(content, words, k, len) ==
  IF k > len THEN <<>>
  ELSE tryPrefix(content, JoinWords(words, k), k, shortestFrom(content, words, k + 1, len))

\* the greedy loop preferring the shortest accepted prefix
greedyPrefixShortestFirst(content, words, len) == shortestFrom(content, words, 1, len)

RECURSIVE greedyPrefix(_, _, _)
\* the greedy loop "for (len = ...; len >= 1 && !matchType; len--)" from len
\* downwards: the first (longest) accepted prefix found in content, or <<>>
greedyPrefix(content, words, len) ==
  IF len < 1 THEN <<>>
  ELSE tryPrefix(content, JoinWords(words, len), len, greedyPrefix(content, words, len - 1))

\* the greedy loop started at words.length - 1
greedyFrom(content, words) == greedyPrefix(content, words, Len(words) - 1)

\* "no match" for one catalog entry
NoMatch == [matchType |-> "none", matchedPrefix |-> <<>>]

\* the matchInfo of a greedy search that ended with prefix (<<>>: none)
greedyResult(prefix) ==
  IF prefix # <<>> THEN [matchType |-> "greedy", matchedPrefix |-> prefix] ELSE NoMatch

\* the loop body with the substring test alone, without the word-boundary
\* test
matchBaseSubstring(content, nameLower, baseName, greedy) ==
  IF Len(nameLower) < MIN_ALGO_SEARCH_LENGTH THEN NoMatch
  ELSE IF nameLower \in ALGO_BLOCKLIST THEN NoMatch
  ELSE IF baseName \in ALGO_BLOCKLIST THEN NoMatch
  ELSE IF Includes(ToLowerCase(content), nameLower)
    THEN [matchType |-> "exact", matchedPrefix |-> <<>>]
  ELSE IF greedy
    THEN greedyResult(greedyFrom(content, SplitWords(StripPossessives(baseName, 1))))
  ELSE NoMatch

\* the loop body without the test of the name's length
matchBaseAnyLength(content, nameLower, baseName, greedy) ==
  IF nameLower \in ALGO_BLOCKLIST THEN NoMatch
  ELSE IF baseName \in ALGO_BLOCKLIST THEN NoMatch
  ELSE IF Includes(ToLowerCase(content), nameLower) /\ WordBoundaryTest(content, nameLower)
    THEN [matchType |-> "exact", matchedPrefix |-> <<>>]
  ELSE IF greedy
    THEN greedyResult(greedyFrom(content, SplitWords(StripPossessives(baseName, 1))))
  ELSE NoMatch

\* the loop body of algorithmicSearch for nameLower = item.name.toLowerCase()
\* and baseName = nameLower without its trailing parentheses
matchBase(content, nameLower, baseName, greedy) ==
  IF Len(nameLower) < MIN_ALGO_SEARCH_LENGTH THEN NoMatch
  ELSE IF nameLower \in ALGO_BLOCKLIST THEN NoMatch
  ELSE IF baseName \in ALGO_BLOCKLIST THEN NoMatch
  ELSE IF Includes(ToLowerCase(content), nameLower) /\ WordBoundaryTest(content, nameLower)
    THEN [matchType |-> "exact", matchedPrefix |-> <<>>]
  ELSE IF greedy
    THEN greedyResult(greedyFrom(content, SplitWords(StripPossessives(baseName, 1))))
  ELSE NoMatch

\* the same for nameLower alone
matchLower(content, nameLower, greedy) ==
  matchBase(content, nameLower, Trim(StripTrailingParens(nameLower)), greedy)

\* the body of the loop of algorithmicSearch for one item: its match type
\* ("exact", "greedy" or "none") and the matched prefix of a greedy match
matchItem(content, item, greedy) == matchLower(content, ToLowerCase(item.name), greedy)

\* Map.prototype.set on a map kept as the sequence of its entries in
\* insertion order, each entry carrying its key in field id
MapSet(map, entry) ==
  IF \E i \in 1..Len(map) : map[i].id = entry.id
    THEN [i \in 1..Len(map) |-> IF map[i].id = entry.id THEN entry ELSE map[i]]
    ELSE Append(map, entry)

\* Map.prototype.has
MapHas(map, id) == \E i \in 1..Len(map) : map[i].id = id

\* "if (matchType) found.set(item.id, matchInfo)"
recordMatch(found, item, m) ==
  IF m.matchType # "none"
    THEN MapSet(found, [id            |-> item.id,
                        item          |-> item,
                        matchType     |-> m.matchType,
                        matchedPrefix |-> m.matchedPrefix])
    ELSE found

RECURSIVE searchLoop(_, _, _, _)
\* found after the first k items of algorithmicSearch's loop
searchLoop(content, allItems, greedy, k) ==
  IF k = 0 THEN <<>>
  ELSE recordMatch(searchLoop(content, allItems, greedy, k - 1),
                   allItems[k],
                   matchItem(content, allItems[k], greedy))

RECURSIVE setAll(_, _, _)
\* found after found.set for the first k entries of more
setAll(found, more, k) ==
  IF k = 0 THEN found ELSE MapSet(setAll(found, more, k - 1), more[k])

\* algorithmicSearch with a Map that outlives the call: the entries of the
\* call before stay in it
algorithmicSearchKeepsFound(content, allItems, greedy) ==
  setAll(lLast,
         searchLoop(content, allItems, greedy, Len(allItems)),
         Len(searchLoop(content, allItems, greedy, Len(allItems))))

\* algorithmicSearch: the map itemId -> matchInfo
algorithmicSearch(content, allItems, greedy) ==
  searchLoop(content, allItems, greedy, Len(allItems))

(***************************************************************************)
(* One call of the validator.                                              *)
(***************************************************************************)
\* catalog entries the validator is run against
ValidatorItemPool ==
  { [id |-> 1, name |-> <<"O", "n", "y", "x">>],
    [id |-> 2, name |-> <<"O", "N", "Y", "X">>],
    [id |-> 3, name |-> <<"A", "l", "e", " ", "(", "4", ")">>],
    [id |-> 4, name |-> <<"D", "-", "h", "i", "d", "e">>],
    [id |-> 5, name |-> <<"O", "r", "y", "x">>] }

\* names the oracle proposes
CandidateNamePool ==
  { <<"O", "n", "y", "x">>,
    <<"A", "l", "e">>,
    <<"d", "h", "i", "d", "e">>,
    <<"O", "n", "i", "x">>,
    <<"O", "n", "i", "x", "e", "s">> }

\* catalogs: every ordering of up to MaxCatalog entries with distinct ids
ValidatorCatalogs ==
  UNION { {f \in [1..n -> ValidatorItemPool] :
             \A i, j \in 1..n : i # j => f[i].id # f[j].id} : n \in 0..MaxCatalog }

\* candidate lists: the k-th candidate carries snippet k
ValidatorCandidateLists ==
  UNION { {[k \in 1..n |-> [name       |-> f[k],
                            snippet    |-> k,
                            context    |-> "mention_only",
                            confidence |-> NoConfidence,
                            mentionType |-> "direct"]] :
             f \in [1..n -> CandidateNamePool]} : n \in 0..MaxCands }

\* the validator before the call: the arguments are chosen, nothing is returned
ValidatorInit ==
  /\ vPc = "idle"
  /\ vAllItems \in ValidatorCatalogs
  /\ vCandidates \in ValidatorCandidateLists
  /\ vValidated = <<>>
  /\ vResolved = <<>>
  /\ CallUnused
  /\ LexicalUnused
  /\ RestUnused

\* what the cascade did for one candidate: the matched id (0: none), the branch
resolvedEntry(r) == [itemId |-> r.match.id, branch |-> r.branch]

\* one call validateItemCandidates(vCandidates, vAllItems)
ValidateCall ==
  /\ vPc = "idle"
  /\ vPc' = "done"
  /\ vValidated' = validateItemCandidates(vCandidates, vAllItems)
  /\ vResolved' = [k \in 1..Len(vCandidates) |->
                     resolvedEntry(resolveCandidate(vCandidates[k], vAllItems))]
  /\ UNCHANGED <<vAllItems, vCandidates>>
  /\ UNCHANGED <<callVars, lexicalVars, restVars>>


\* catalog entries with near neighbours: "Chide" is one edit from "dhide"
\* and two from "d hide", which both stand for "D-hide"
CascadeItemPool ==
  { [id |-> 3, name |-> <<"A", "l", "e", " ", "(", "4", ")">>],
    [id |-> 6, name |-> <<"A", "x", "e">>],
    [id |-> 4, name |-> <<"D", "-", "h", "i", "d", "e">>],
    [id |-> 7, name |-> <<"C", "h", "i", "d", "e">>] }

\* names the oracle proposes for them
CascadeNamePool == { <<"d", " ", "h", "i", "d", "e">>, <<"d", "h", "i", "d", "e">>, <<"A", "X", "E">>, <<"A", "x", "e", "s">> }

CascadeCatalogs ==
  UNION { {f \in [1..n -> CascadeItemPool] :
             \A i, j \in 1..n : i # j => f[i].id # f[j].id} : n \in 0..MaxCatalog }

CascadeCandidateLists ==
  UNION { {[k \in 1..n |-> [name       |-> f[k],
                            snippet    |-> k,
                            context    |-> "mention_only",
                            confidence |-> NoConfidence,
                            mentionType |-> "direct"]] :
             f \in [1..n -> CascadeNamePool]} : n \in 0..MaxCands }

\* the validator before a call on these
CascadeInit ==
  /\ vPc = "idle"
  /\ vAllItems \in CascadeCatalogs
  /\ vCandidates \in CascadeCandidateLists
  /\ vValidated = <<>>
  /\ vResolved = <<>>
  /\ CallUnused
  /\ LexicalUnused
  /\ RestUnused
(***************************************************************************)
(* Calls of the lexical matcher.                                           *)
(***************************************************************************)
\* catalog entries the matcher is run against
LexicalItemPool ==
  { [id |-> 1, name |-> <<"D", "r", "a", "g", "o", "n", " ", "p", "l", "a", "t", "e", "b", "o", "d", "y">>],
    [id |-> 2, name |-> <<"D", "r", "a", "g", "o", "n", " ", "c", "h", "a", "i", "n", "b", "o", "d", "y">>],
    [id |-> 3, name |-> <<"A", "l", "e">>],
    [id |-> 4, name |-> <<"C", "a", "n", "n", "o", "n">>],
    [id |-> 5, name |-> <<"B", "l", "u", "e", " ", "m", "o", "o", "n", " ", "h", "e", "l", "m">>],
    [id |-> 6, name |-> <<"V", "i", "r", "t", "u", "s", " ", "r", "o", "b", "e", " ", "t", "o", "p">>],
    [id |-> 7, name |-> <<"A", "b", "y", "s", "s", "a", "l", " ", "w", "h", "i", "p">>],
    [id |-> 8, name |-> <<"Z", "u", "l", " ", "a", "n", "d", "r", "a", " ", "t", "e", "l", "e", "p", "o", "r", "t">>],
    [id |-> 9, name |-> <<"O", "n", "y", "x">>],
    [id |-> 10, name |-> <<"C", "o", "a", "l">>],
    [id |-> 11, name |-> <<"C", "o", "a", "l", " ", "(", "4", ")">>],
    [id |-> 12, name |-> <<"J", "a", "d", "e", "'", "s", " ", "o", "r", "e">>] }

\* article texts
LexicalContents ==
  { <<"T", "h", "e", " ", "D", "r", "a", "g", "o", "n", " ", "p", "l", "a", "t", "e", "b", "o", "d", "y", " ", "h", "a", "s", " ", "r", "e", "c", "e", "i", "v", "e", "d", " ", "a", " ", "b", "u", "f", "f">>,
    <<"C", "a", "n", "n", "o", "n", ",", " ", "a", "l", "e", ",", " ", "c", "o", "a", "l", " ", "a", "n", "d", " ", "C", "o", "a", "l", " ", "(", "4", ")", "s">>,
    <<"B", "l", "u", "e", " ", "M", "o", "o", "n", " ", "t", "a", "s", "s", "e", "t", "s", ",", " ", "V", "i", "r", "t", "u", "s", " ", "r", "o", "b", "e", " ", "b", "o", "t", "t", "o", "m", "s">>,
    <<"V", "i", "r", "t", "u", "s", " ", "s", "e", "t", " ", "e", "f", "f", "e", "c", "t", ";", " ", "a", "b", "y", "s", "s", "a", "l", " ", "o", "n", "y", "x", "e", "s">>,
    <<"Z", "u", "l", " ", "a", "n", "d", "r", "a", " ", "O", "N", "Y", "X", ",", " ", "J", "a", "d", "e", "'", "s", " ", "a", "m", "u", "l", "e", "t">>,
    <<>> }

\* catalogs: every ordering of up to MaxLexCatalog entries with distinct ids
LexicalCatalogs ==
  UNION { {f \in [1..n -> LexicalItemPool] :
             \A i, j \in 1..n : i # j => f[i].id # f[j].id} : n \in 0..MaxLexCatalog }

\* the arguments of a call made between the first call and its repetition
OtherContent == <<"V", "i", "r", "t", "u", "s", " ", "r", "o", "b", "e", " ", "t", "o", "p", " ", "a", "n", "d", " ", "O", "n", "y", "x", ",", " ", "a", " ", "c", "a", "n", "n", "o", "n">>
OtherItems == << [id |-> 4, name |-> <<"C", "a", "n", "n", "o", "n">>],
                 [id |-> 6, name |-> <<"V", "i", "r", "t", "u", "s", " ", "r", "o", "b", "e", " ", "t", "o", "p">>],
                 [id |-> 9, name |-> <<"O", "n", "y", "x">>] >>

\* before the first call: the arguments are chosen
LexicalInit ==
  /\ lPc = "idle"
  /\ lContent \in LexicalContents
  /\ lAllItems \in LexicalCatalogs
  /\ lGreedy \in BOOLEAN
  /\ lLast = <<>>
  /\ lFirst = <<>>
  /\ lSecond = <<>>
  /\ lCalls = 0
  /\ ValidatorUnused
  /\ CallUnused
  /\ RestUnused

\* algorithmicSearch(lContent, lAllItems, lGreedy), for the first time
LexicalCall ==
  /\ lPc = "idle"
  /\ lPc' = "called"
  /\ lFirst' = algorithmicSearch(lContent, lAllItems, lGreedy)
  /\ lLast' = lFirst'
  /\ lCalls' = lCalls + 1
  /\ UNCHANGED <<lContent, lAllItems, lGreedy, lSecond>>
  /\ UNCHANGED <<validatorVars, callVars, restVars>>

\* a call with other arguments in between
LexicalOtherCall ==
  /\ lPc = "called"
  /\ lPc' = "between"
  /\ lLast' = algorithmicSearch(OtherContent, OtherItems, ~lGreedy)
  /\ lCalls' = lCalls + 1
  /\ UNCHANGED <<lContent, lAllItems, lGreedy, lFirst, lSecond>>
  /\ UNCHANGED <<validatorVars, callVars, restVars>>

\* algorithmicSearch(lContent, lAllItems, lGreedy) once more
LexicalCallAgain ==
  /\ lPc \in {"called", "between"}
  /\ lPc' = "again"
  /\ lSecond' = algorithmicSearch(lContent, lAllItems, lGreedy)
  /\ lLast' = lSecond'
  /\ lCalls' = lCalls + 1
  /\ UNCHANGED <<lContent, lAllItems, lGreedy, lFirst>>
  /\ UNCHANGED <<validatorVars, callVars, restVars>>

(***************************************************************************)
(* Hybrid combiner (hybridExtract, validateAlgoCandidates and              *)
(* _hybridExtractInlineSinglePass in src/hybridExtractor.js,               *)
(* extractItemCandidates in src/itemExtractor.js).                         *)
(*                                                                         *)
(* An oracle response is a record with a kind, a payload and a usage:      *)
(*   "rejects"    fetchStructuredResponse rejected (the request threw)     *)
(*   "noMessage"  the response has no choices[0].message                   *)
(*   "noPayload"  the message has neither parsed nor content               *)
(*   "badJson"    the message has content that JSON.parse refuses          *)
(*   "parsed"     the message has a parsed payload                         *)
(*   "content"    the message has content that parses to the payload       *)
(***************************************************************************)
\* CONFIDENCE_SCORES
CONFIDENCE_SCORES ==
  [confirmed     |-> [n |-> 1, d |-> 1],
   llmOnly       |-> [n |-> 4, d |-> 5],
   algoValidated |-> [n |-> 7, d |-> 10]]

\* the confidence of an oracle candidate that reports none ("?? 0.9")
DefaultLlmConfidence == [n |-> 9, d |-> 10]

\* the confidence validateAlgoCandidates gives a confirmed candidate (0.8)
AlgoConfirmedConfidence == [n |-> 4, d |-> 5]

\* the snippet of a confirmed candidate whose snippet is empty
ValidatedByLLM == "[Validated by LLM]"

ZeroUsage == [promptTokens |-> 0, completionTokens |-> 0, reasoningTokens |-> 0]

\* component-wise sum of two usages
AddUsage(a, b) ==
  [promptTokens     |-> a.promptTokens + b.promptTokens,
   completionTokens |-> a.completionTokens + b.completionTokens,
   reasoningTokens  |-> a.reasoningTokens + b.reasoningTokens]

\* whether the response carries a payload the caller can read
HasPayload(response) == response.kind \in {"parsed", "content"}

\* extractItemCandidates for the response its request got: it throws (ok is
\* FALSE) when the request rejected, when there is no message, when there
\* is no payload and when the content does not parse
extractItemCandidates(response) ==
  IF HasPayload(response)
    THEN [ok |-> TRUE, items |-> response.items, usage |-> response.usage]
    ELSE [ok |-> FALSE, items |-> <<>>, usage |-> ZeroUsage]

\* the try block of _hybridExtractInlineSinglePass up to "result": a
\* response without message or payload counts as { items: [] }; a rejected
\* request and unparsable content throw
inlineResult(response) ==
  IF HasPayload(response)
    THEN [ok |-> TRUE, items |-> response.items, usage |-> response.usage]
  ELSE IF response.kind \in {"noMessage", "noPayload"}
    THEN [ok |-> TRUE, items |-> <<>>, usage |-> response.usage]
  ELSE [ok |-> FALSE, items |-> <<>>, usage |-> ZeroUsage]

\* candidateMap.get(lower): new Map(candidates.map(c => [lower(c.name), c]))
\* keeps, for a key given several times, the last candidate
candidateMapGet(candidates, lower) ==
  LastAt(candidates, {i \in 1..Len(candidates) : ToLowerCase(candidates[i].name) = lower})

\* the element validateAlgoCandidates pushes for the candidate original and
\* the response entry item
confirmedEntry(original, item) ==
  [name        |-> original.name,
   snippet     |-> IF item.snippet # "" THEN item.snippet ELSE ValidatedByLLM,
   context     |-> "mention_only",
   confidence  |-> AlgoConfirmedConfidence,
   mentionType |-> "direct",
   itemId      |-> original.id,
   itemName    |-> original.name]

\* a loop body that pushes every entry whose name is a candidate's, relevant
\* or not
pushConfirmedAnyRelevance(validatedItems, item, original) ==
  IF original # Null
    THEN Append(validatedItems, confirmedEntry(original, item))
    ELSE validatedItems

\* the body of "for (const item of result.validItems || [])"
pushConfirmed(validatedItems, item, original) ==
  IF item.isRelevant /\ original # Null
    THEN Append(validatedItems, confirmedEntry(original, item))
    ELSE validatedItems

RECURSIVE confirmLoop(_, _, _)
\* validatedItems after the first k entries of result.validItems
confirmLoop(candidates, validItems, k) ==
  IF k = 0 THEN <<>>
  ELSE pushConfirmed(confirmLoop(candidates, validItems, k - 1),
                     validItems[k],
                     candidateMapGet(candidates, ToLowerCase(validItems[k].name)))

\* validateAlgoCandidates for the response its request got; no request is
\* made for an empty candidate list.  A rejected request and unparsable
\* content end in the catch block (emptyResult); a response without message
\* or payload gives no items and the usage of the response
validateAlgoCandidates(candidates, response) ==
  IF candidates = <<>> THEN [items |-> <<>>, usage |-> ZeroUsage]
  ELSE IF HasPayload(response)
    THEN [items |-> confirmLoop(candidates, response.validItems, Len(response.validItems)),
          usage |-> response.usage]
  ELSE IF response.kind \in {"noMessage", "noPayload"}
    THEN [items |-> <<>>, usage |-> response.usage]
  ELSE [items |-> <<>>, usage |-> ZeroUsage]

\* item with another confidence and a source ("{...item, confidence, source}")
withSource(item, confidence, source) ==
  [name        |-> item.name,
   snippet     |-> item.snippet,
   context     |-> item.context,
   confidence  |-> confidence,
   mentionType |-> item.mentionType,
   itemId      |-> item.itemId,
   itemName    |-> item.itemName,
   source      |-> source]

\* the categorization that keeps the oracle's confidence as it is
categorizeKeepsConfidence(item, llmConfidence, algoMatches) ==
  IF MapHas(algoMatches, item.itemId)
    THEN withSource(item, llmConfidence, "both")
    ELSE withSource(item, llmConfidence, "llm")

\* the body of "for (const item of llmValidated)" of hybridExtract for an
\* item and llmConfidence = item.confidence ?? 0.9
categorize(item, llmConfidence, algoMatches) ==
  IF MapHas(algoMatches, item.itemId)
    THEN withSource(item, FMax(llmConfidence, CONFIDENCE_SCORES.confirmed), "both")
    ELSE withSource(item, FMin(llmConfidence, CONFIDENCE_SCORES.llmOnly), "llm")

\* the items.map of _hybridExtractInlineSinglePass for one item
categorizeInline(item, algoMatches) ==
  IF MapHas(algoMatches, item.itemId)
    THEN withSource(item, CONFIDENCE_SCORES.confirmed, "both")
    ELSE withSource(item, CONFIDENCE_SCORES.llmOnly, "llm")

RECURSIVE WithSource(_, _)
\* the elements of items whose source is source, in order
WithSource(items, source) ==
  IF items = <<>> THEN <<>>
  ELSE IF Head(items).source = source
    THEN <<Head(items)>> \o WithSource(Tail(items), source)
    ELSE WithSource(Tail(items), source)

\* llmValidated with every item categorized
categorizeAll(llmValidated, algoMatches) ==
  [k \in 1..Len(llmValidated) |->
     categorize(llmValidated[k],
                ConfidenceOr(llmValidated[k].confidence, DefaultLlmConfidence),
                algoMatches)]

\* llmItemIds
llmItemIdsOf(llmValidated) == {llmValidated[k].itemId : k \in 1..Len(llmValidated)}

RECURSIVE algoOnlyLoop(_, _, _)
\* algoOnlyCandidates after the first k entries of algoMatches
algoOnlyLoop(algoMatches, llmItemIds, k) ==
  IF k = 0 THEN <<>>
  ELSE IF algoMatches[k].id \notin llmItemIds
    THEN Append(algoOnlyLoop(algoMatches, llmItemIds, k - 1), algoMatches[k].item)
    ELSE algoOnlyLoop(algoMatches, llmItemIds, k - 1)

\* "for (const [itemId, matchInfo] of algoMatches) if (!llmItemIds.has(itemId))"
algoOnlyCandidatesOf(algoMatches, llmValidated) ==
  algoOnlyLoop(algoMatches, llmItemIdsOf(llmValidated), Len(algoMatches))

\* x put into the list sorted by descending confidence behind its first p
\* elements
insertAt(sorted, x, p) ==
  SubSeq(sorted, 1, p) \o <<x>> \o SubSeq(sorted, p + 1, Len(sorted))

RECURSIVE sortByConfidence(_, _)
\* the first k elements of items under sort((a, b) => b.confidence -
\* a.confidence): descending confidence, equal confidences in their order
\* in items (Array.prototype.sort is stable)
sortByConfidence(items, k) ==
  IF k = 0 THEN <<>>
  ELSE insertAt(sortByConfidence(items, k - 1),
                items[k],
                Cardinality({i \in 1..(k - 1) : FLeq(items[k].confidence, items[i].confidence)}))

\* "[...confirmed, ...llmOnly, ...algoOnly].sort(...)"
allResultsOf(confirmed, llmOnly, algoOnly) ==
  sortByConfidence(confirmed \o llmOnly \o algoOnly,
                   Len(confirmed) + Len(llmOnly) + Len(algoOnly))

\* the validated items of a confirmation call as hybridExtract pushes them
\* onto algoOnly
algoOnlyOf(validationItems) ==
  [k \in 1..Len(validationItems) |->
     withSource(validationItems[k], CONFIDENCE_SCORES.algoValidated, "algo_validated")]

(***************************************************************************)
(* One run.  A run is a call of hybridExtract or of                        *)
(* _hybridExtractInlineSinglePass; pc tells where it stands:               *)
(*   "extract"   its extraction request is pending                         *)
(*   "confirm"   (hybridExtract) its confirmation request is pending       *)
(*   "returned"  it returned items and usage                               *)
(*   "rejected"  it threw                                                  *)
(***************************************************************************)
\* a run that has just been called: the lexical match is done, the
\* extraction request is out
startRun(algoMatches) ==
  [pc                 |-> "extract",
   algoMatches        |-> algoMatches,
   llmValidated       |-> <<>>,
   confirmed          |-> <<>>,
   llmOnly            |-> <<>>,
   algoOnlyCandidates |-> <<>>,
   algoOnly           |-> <<>>,
   items              |-> <<>>,
   usage              |-> ZeroUsage,
   calls              |-> 1]

\* a run that threw
rejectedRun(run) == [run EXCEPT !.pc = "rejected"]

\* hybridExtract from the categorization to the test of algoOnlyCandidates:
\* with no candidate the run returns, else the confirmation request goes out
hybridCategorized(run, usage, llmValidated, categorized, algoOnlyCandidates) ==
  [run EXCEPT
     !.pc = IF algoOnlyCandidates = <<>> THEN "returned" ELSE "confirm",
     !.llmValidated = llmValidated,
     !.confirmed = WithSource(categorized, "both"),
     !.llmOnly = WithSource(categorized, "llm"),
     !.algoOnlyCandidates = algoOnlyCandidates,
     !.items = IF algoOnlyCandidates = <<>>
                 THEN allResultsOf(WithSource(categorized, "both"),
                                   WithSource(categorized, "llm"), <<>>)
                 ELSE <<>>,
     !.usage = usage,
     !.calls = IF algoOnlyCandidates = <<>> THEN 1 ELSE 2]

\* hybridExtract from "const llmCandidates = llmResult.items" on
hybridValidated(run, usage, llmValidated) ==
  hybridCategorized(run, usage, llmValidated,
                    categorizeAll(llmValidated, run.algoMatches),
                    algoOnlyCandidatesOf(run.algoMatches, llmValidated))

\* hybridExtract continued with the settled Promise.all
hybridAfterExtract(run, allItems, llmResult) ==
  IF llmResult.ok
    THEN hybridValidated(run, llmResult.usage,
                         validateItemCandidates(llmResult.items, allItems))
    ELSE rejectedRun(run)

\* hybridExtract continued with the result of validateAlgoCandidates
hybridAfterConfirm(run, validationResult) ==
  [run EXCEPT
     !.pc = "returned",
     !.algoOnly = algoOnlyOf(validationResult.items),
     !.items = allResultsOf(run.confirmed, run.llmOnly, algoOnlyOf(validationResult.items)),
     !.usage = AddUsage(run.usage, validationResult.usage)]

\* _hybridExtractInlineSinglePass from validateItemCandidates on
inlineValidated(run, usage, llmValidated) ==
  [run EXCEPT
     !.pc = "returned",
     !.llmValidated = llmValidated,
     !.items = [k \in 1..Len(llmValidated) |->
                  categorizeInline(llmValidated[k], run.algoMatches)],
     !.usage = usage]

\* _hybridExtractInlineSinglePass continued with the settled request
inlineAfterExtract(run, significantItems, result) ==
  IF result.ok
    THEN inlineValidated(run, result.usage,
                         validateItemCandidates(result.items, significantItems))
    ELSE rejectedRun(run)

(***************************************************************************)
(* Configuration read from the environment when src/hybridExtractor.js is  *)
(* loaded.  A JavaScript number that may be NaN is the record              *)
(* [nan, value]; value is a fraction.                                      *)
(***************************************************************************)
DecimalDigits == <<"0", "1", "2", "3", "4", "5", "6", "7", "8", "9">>

IsDigit(c) == c \in Digits

\* the value of a digit character
DigitValue(c) == (CHOOSE k \in 1..10 : DecimalDigits[k] = c) - 1

NaN == [nan |-> TRUE, value |-> [n |-> 0, d |-> 1]]

Number(n, d) == [nan |-> FALSE, value |-> Frac(n, d)]

\* the string without its leading white space
TrimStart(s) ==
  IF NonSpaceAt(s) = {} THEN <<>> ELSE SubSeq(s, MinOf(NonSpaceAt(s)), Len(s))

\* the length of the longest prefix of s made of digits
DigitRun(s) ==
  IF \A i \in 1..Len(s) : IsDigit(s[i]) THEN Len(s)
  ELSE MinOf({i \in 1..Len(s) : ~IsDigit(s[i])}) - 1

RECURSIVE DigitsValue(_, _)
\* the decimal value of the first k characters of s, all digits
DigitsValue(s, k) ==
  IF k = 0 THEN 0 ELSE 10 * DigitsValue(s, k - 1) + DigitValue(s[k])

RECURSIVE Pow10(_)
Pow10(k) == IF k = 0 THEN 1 ELSE 10 * Pow10(k - 1)

\* whether s starts with a sign, and the factor the sign stands for
HasSign(s) == s # <<>> /\ s[1] \in {"+", "-"}
SignOf(s) == IF s # <<>> /\ s[1] = "-" THEN -1 ELSE 1
Unsigned(s) == IF HasSign(s) THEN Tail(s) ELSE s

\* parseInt of an unsigned string: its leading digits, NaN when it has none
parseUnsignedInt(s, sign) ==
  IF DigitRun(s) = 0 THEN NaN ELSE Number(sign * DigitsValue(s, DigitRun(s)), 1)

\* parseInt(s, 10) for a string s
parseIntOfString(s) == parseUnsignedInt(Unsigned(TrimStart(s)), SignOf(TrimStart(s)))

\* parseInt(x, 10): undefined is converted to the string "undefined"
parseInt(x) == IF x = Undefined THEN NaN ELSE parseIntOfString(x)

\* the digits after the decimal point of s, whose integer part has w digits
FractionDigits(s, w) ==
  IF w < Len(s) /\ s[w + 1] = "." THEN SubSeq(s, w + 2, Len(s)) ELSE <<>>

\* the value of w integer digits followed by the f leading digits of frac
decimalValue(s, w, frac, f, sign) ==
  IF w = 0 /\ f = 0 THEN NaN
  ELSE Number(sign * (DigitsValue(s, w) * Pow10(f) + DigitsValue(frac, f)), Pow10(f))

\* parseFloat of an unsigned string in decimal notation without exponent
parseUnsignedFloat(s, sign) ==
  decimalValue(s, DigitRun(s), FractionDigits(s, DigitRun(s)),
               DigitRun(FractionDigits(s, DigitRun(s))), sign)

\* parseFloat(x)
parseFloat(x) ==
  IF x = Undefined THEN NaN
  ELSE parseUnsignedFloat(Unsigned(TrimStart(x)), SignOf(TrimStart(x)))

\* "x || dflt" for a number x: NaN and 0 are falsy
OrDefault(x, dflt) == IF x.nan \/ x.value.n = 0 THEN dflt ELSE x.value

\* a VOTING_RUNS that keeps a parsed 0
OrDefaultUnlessNumber(x, dflt) == IF x.nan THEN dflt ELSE x.value

\* const VOTING_RUNS = parseInt(process.env.VOTING_RUNS, 10) || 5
VOTING_RUNS(env) == OrDefault(parseInt(env), Frac(5, 1)).n

\* const VOTING_THRESHOLD = parseFloat(process.env.VOTING_THRESHOLD) || 0.6
VOTING_THRESHOLD(env) == OrDefault(parseFloat(env), Frac(6, 10))

\* hybridExtractInline: the function it delegates to
inlineDelegate(votingRuns) ==
  IF votingRuns > 0 THEN "_hybridExtractInlineVoting" ELSE "_hybridExtractInlineSinglePass"
(***************************************************************************)
(* withRetry (src/utils/retry.js) around the oracle request of             *)
(* fetchStructuredResponse (src/fetchStructuredResponse.js).  Delays are   *)
(* whole milliseconds; Math.random() is a percentage below 100.            *)
(***************************************************************************)
\* a field of an error that is absent
NoField == <<>>

\* an error object: code, name, status and message
Error(code, name, status, message) ==
  [code |-> code, name |-> name, status |-> status, message |-> message]

\* isRetryableError: the test on the status, which is present and not 0
retryableStatus(status) == status >= 500 \/ status = 429

\* isRetryableError: the test on the message
retryableMessage(message) ==
  Includes(message, <<"t", "i", "m", "e", "o", "u", "t">>) \/ Includes(message, <<"E", "C", "O", "N", "N", "R", "E", "S", "E", "T">>)

\* isRetryableError
isRetryableError(error) ==
  IF error.code \in {<<"E", "C", "O", "N", "N", "R", "E", "S", "E", "T">>, <<"E", "T", "I", "M", "E", "D", "O", "U", "T">>, <<"E", "N", "O", "T", "F", "O", "U", "N", "D">>} THEN TRUE
  ELSE IF error.name \in {<<"F", "e", "t", "c", "h", "E", "r", "r", "o", "r">>, <<"A", "b", "o", "r", "t", "E", "r", "r", "o", "r">>} THEN TRUE
  ELSE IF error.status # 0 THEN retryableStatus(error.status)
  ELSE retryableMessage(error.message)

RECURSIVE Pow2(_)
\* Math.pow(2, k) for k >= 0
Pow2(k) == IF k = 0 THEN 1 ELSE 2 * Pow2(k - 1)

\* the smaller of two integers (Math.min)
MathMin(a, b) == IF a <= b THEN a ELSE b

\* calculateBackoff without the cap
uncappedBackoff(attempt, baseDelayMs, maxDelayMs, randomPercent) ==
  baseDelayMs * Pow2(attempt - 1)
    + (randomPercent * 30 * baseDelayMs * Pow2(attempt - 1)) \div 10000

\* calculateBackoff; Math.random() is randomPercent / 100
calculateBackoff(attempt, baseDelayMs, maxDelayMs, randomPercent) ==
  MathMin(baseDelayMs * Pow2(attempt - 1)
            + (randomPercent * 30 * baseDelayMs * Pow2(attempt - 1)) \div 10000,
          maxDelayMs)

\* the options fetchStructuredResponse passes: maxRetries 3, the rest default
OracleMaxRetries == 3
DefaultBaseDelayMs == 1000
DefaultMaxDelayMs == 30000

\* the options of a call of withRetry
Options(maxRetries, baseDelayMs, maxDelayMs) ==
  [maxRetries |-> maxRetries, baseDelayMs |-> baseDelayMs, maxDelayMs |-> maxDelayMs]

\* a loop that retries whatever the error is
givesUpOnCountOnly(attempt, maxRetries, error) == attempt > maxRetries

\* "attempt > maxRetries || !shouldRetry(error)"
givesUp(attempt, maxRetries, error) == attempt > maxRetries \/ ~isRetryableError(error)
(***************************************************************************)
(* Voting consensus (hybridExtractWithVoting and                           *)
(* _hybridExtractInlineVoting in src/hybridExtractor.js).                  *)
(***************************************************************************)
RECURSIVE allRunItems(_, _)
\* the items of the first k runs in the order of the two nested loops
\* "for (const run of allRuns) for (const item of run.items)"
allRunItems(allRuns, k) ==
  IF k = 0 THEN <<>> ELSE allRunItems(allRuns, k - 1) \o allRuns[k].items

\* the loop body for an item and its vote so far: one more appearance
countVote(vote, item) ==
  [id          |-> item.itemId,
   appearances |-> vote.appearances + 1,
   scores      |-> Append(vote.scores, item.confidence),
   sources     |-> Append(vote.sources, item.source),
   items       |-> Append(vote.items, item)]

\* the vote of an item id that has none yet
NoVote == [appearances |-> 0, scores |-> <<>>, sources |-> <<>>, items |-> <<>>]

\* "itemVotes.get(item.itemId) || {...}", counted, and set
addVote(itemVotes, item) ==
  IF MapHas(itemVotes, item.itemId)
    THEN [i \in 1..Len(itemVotes) |->
            IF itemVotes[i].id = item.itemId
              THEN countVote(itemVotes[i], item)
              ELSE itemVotes[i]]
    ELSE Append(itemVotes, countVote(NoVote, item))

RECURSIVE voteLoop(_, _)
\* itemVotes after the first k items
voteLoop(items, k) ==
  IF k = 0 THEN <<>> ELSE addVote(voteLoop(items, k - 1), items[k])

\* itemVotes: the votes per item id, in the order the ids were first seen
itemVotesOf(allRuns) ==
  voteLoop(allRunItems(allRuns, Len(allRuns)),
           Len(allRunItems(allRuns, Len(allRuns))))

\* appearanceRatio with a product in place of the quotient
appearanceRatioGrowing(appearances, numRuns) == Frac(appearances * numRuns, 1)

\* "vote.appearances / numRuns"
appearanceRatio(appearances, numRuns) == Frac(appearances, numRuns)

\* meetsThreshold with a strict comparison
exceedsThreshold(ratio, votingThreshold) == FLess(votingThreshold, ratio)

\* "appearanceRatio >= votingThreshold"
meetsThreshold(ratio, votingThreshold) == FLeq(votingThreshold, ratio)

\* the reducer "(a, b) => a.confidence > b.confidence ? a : b"
pickBest(a, b) == IF FLess(b.confidence, a.confidence) THEN a ELSE b

RECURSIVE bestItemOf(_, _)
\* vote.items.reduce(pickBest) over the first k items (k >= 1)
bestItemOf(items, k) ==
  IF k = 1 THEN items[1] ELSE pickBest(bestItemOf(items, k - 1), items[k])

RECURSIVE sumScores(_, _)
\* "vote.scores.reduce((a, b) => a + b, 0)" over the first k scores
sumScores(scores, k) ==
  IF k = 0 THEN [n |-> 0, d |-> 1] ELSE FAdd(sumScores(scores, k - 1), scores[k])

\* avgConfidence
avgConfidenceOf(scores) == FDivInt(sumScores(scores, Len(scores)), Len(scores))

\* a consistency that counts every source tag, repeated or not
sourceConsistencyPerAppearance(sources) == Frac(1, Len(sources))

\* sourceConsistency: 1.0 / uniqueSources
sourceConsistencyOf(sources) ==
  Frac(1, Cardinality({sources[i] : i \in 1..Len(sources)}))

\* votingConfidence: 0.5 * ratio + 0.3 * avg + 0.2 * consistency
votingConfidenceOf(ratio, avg, consistency) ==
  FAdd(FAdd(FMul([n |-> 1, d |-> 2], ratio), FMul([n |-> 3, d |-> 10], avg)),
       FMul([n |-> 1, d |-> 5], consistency))

\* the element pushed onto votedItems
votedItem(bestItem, vote, numRuns, ratio, avg, consistency) ==
  [name        |-> bestItem.name,
   snippet     |-> bestItem.snippet,
   context     |-> bestItem.context,
   confidence  |-> FMax(avg, votingConfidenceOf(ratio, avg, consistency)),
   mentionType |-> bestItem.mentionType,
   itemId      |-> bestItem.itemId,
   itemName    |-> bestItem.itemName,
   source      |-> bestItem.source,
   votingStats |-> [appearances       |-> vote.appearances,
                    totalRuns         |-> numRuns,
                    appearanceRatio   |-> ratio,
                    avgConfidence     |-> avg,
                    sourceConsistency |-> consistency]]

\* the body of "for (const [, vote] of itemVotes)" for a vote and its ratio
pushVoted(votedItems, vote, numRuns, votingThreshold, ratio) ==
  IF meetsThreshold(ratio, votingThreshold)
    THEN Append(votedItems,
                votedItem(bestItemOf(vote.items, Len(vote.items)), vote, numRuns, ratio,
                          avgConfidenceOf(vote.scores), sourceConsistencyOf(vote.sources)))
    ELSE votedItems

RECURSIVE votedLoop(_, _, _, _)
\* votedItems after the first k votes
votedLoop(itemVotes, numRuns, votingThreshold, k) ==
  IF k = 0 THEN <<>>
  ELSE pushVoted(votedLoop(itemVotes, numRuns, votingThreshold, k - 1),
                 itemVotes[k], numRuns, votingThreshold,
                 appearanceRatio(itemVotes[k].appearances, numRuns))

\* votedItems before the sort
votedItemsOf(itemVotes, numRuns, votingThreshold) ==
  votedLoop(itemVotes, numRuns, votingThreshold, Len(itemVotes))

\* a total that keeps only the usage of the last of the first k runs
lastRunUsage(allRuns, k) == IF k = 0 THEN ZeroUsage ELSE allRuns[k].usage

RECURSIVE totalUsageOf(_, _)
\* the usage summed over the first k runs
totalUsageOf(allRuns, k) ==
  IF k = 0 THEN ZeroUsage ELSE AddUsage(totalUsageOf(allRuns, k - 1), allRuns[k].usage)

\* what hybridExtractWithVoting returns for its votes and voted items
votingReturn(allRuns, numRuns, votingThreshold, itemVotes, votedItems) ==
  [items       |-> sortByConfidence(votedItems, Len(votedItems)),
   votingStats |-> [runsExecuted     |-> numRuns,
                    votingThreshold  |-> votingThreshold,
                    uniqueItemsSeen  |-> Len(itemVotes),
                    itemsAfterVoting |-> Len(votedItems),
                    itemsFiltered    |-> Len(itemVotes) - Len(votedItems)],
   usage       |-> totalUsageOf(allRuns, Len(allRuns))]

\* what _hybridExtractInlineVoting returns (stats.voting is votingStats)
inlineVotingReturn(allRuns, numRuns, votingThreshold, itemVotes, votedItems) ==
  [items       |-> sortByConfidence(votedItems, Len(votedItems)),
   votingStats |-> [runsExecuted     |-> numRuns,
                    votingThreshold  |-> votingThreshold,
                    candidatesSeen   |-> Len(itemVotes),
                    itemsAfterVoting |-> Len(votedItems)],
   usage       |-> totalUsageOf(allRuns, Len(allRuns))]

\* the aggregation for the votes
votingAggregate(entry, allRuns, numRuns, votingThreshold, itemVotes) ==
  IF entry = "hybridExtractWithVoting"
    THEN votingReturn(allRuns, numRuns, votingThreshold, itemVotes,
                      votedItemsOf(itemVotes, numRuns, votingThreshold))
    ELSE inlineVotingReturn(allRuns, numRuns, votingThreshold, itemVotes,
                            votedItemsOf(itemVotes, numRuns, votingThreshold))

\* hybridExtractWithVoting / _hybridExtractInlineVoting after "await
\* Promise.all(...)" has given allRuns
votingResult(entry, allRuns, numRuns, votingThreshold) ==
  votingAggregate(entry, allRuns, numRuns, votingThreshold, itemVotesOf(allRuns))

\* what hybridExtract returns
hybridReturn(run) == [items |-> run.items, usage |-> run.usage]

\* what _hybridExtractInlineSinglePass returns
inlineReturn(run) ==
  [items |-> run.items,
   stats |-> [validated |-> Len(run.items)],
   usage |-> run.usage]

\* the value the call returns once all its runs have returned
callResult(entry, allRuns, numRuns, votingThreshold) ==
  IF entry = "hybridExtract"
    THEN hybridReturn(allRuns[1])
  ELSE IF entry = "_hybridExtractInlineSinglePass"
    THEN inlineReturn(allRuns[1])
    ELSE votingResult(entry, allRuns, numRuns, votingThreshold)

\* Promise.all over the runs: it rejects as soon as one run has thrown and
\* is fulfilled when every run has returned; a call that has settled stays
\* as it is
callPc(pc, allRuns) ==
  IF pc # "running" THEN pc
  ELSE IF \E i \in 1..Len(allRuns) : allRuns[i].pc = "rejected" THEN "rejected"
  ELSE IF \A i \in 1..Len(allRuns) : allRuns[i].pc = "returned" THEN "returned"
  ELSE "running"

(***************************************************************************)
(* One extraction call: hybridExtract, hybridExtractWithVoting or          *)
(* _hybridExtractInlineVoting.                                             *)
(***************************************************************************)
\* the names used below
Onyx == <<"O", "n", "y", "x">>
Ruby == <<"R", "u", "b", "y">>
Jade == <<"J", "a", "d", "e">>
JadeUpper == <<"J", "A", "D", "E">>
JadeRing == <<"J", "a", "d", "e", " ", "r", "i", "n", "g">>
Unknown == <<"Z", "z", "z", "z">>

\* an oracle candidate
Candidate(name, confidence, snippet) ==
  [name        |-> name,
   snippet     |-> snippet,
   context     |-> "mention_only",
   confidence  |-> confidence,
   mentionType |-> "direct"]

\* an entry of validItems in a confirmation response
ValidItem(name, isRelevant, snippet) ==
  [name |-> name, isRelevant |-> isRelevant, snippet |-> snippet]

\* the usage an extraction response and a confirmation response report
ExtractionUsage == [promptTokens |-> 3, completionTokens |-> 2, reasoningTokens |-> 1]
ConfirmationUsage == [promptTokens |-> 2, completionTokens |-> 1, reasoningTokens |-> 0]

\* responses without a readable payload, and the rejected request
FailedExtraction(kind) ==
  [kind |-> kind, items |-> <<>>,
   usage |-> IF kind = "rejects" THEN ZeroUsage ELSE ExtractionUsage]
FailedConfirmation(kind) ==
  [kind |-> kind, validItems |-> <<>>,
   usage |-> IF kind = "rejects" THEN ZeroUsage ELSE ConfirmationUsage]

FailureKinds == {"rejects", "noMessage", "noPayload", "badJson"}

\* ---- hybridExtract on its own ----
HybridContents ==
  { <<"O", "n", "y", "x", " ", "a", "n", "d", " ", "j", "a", "d", "e", ".">>,
    <<"J", "a", "d", "e", "'", "s", " ", "o", "r", "e">>,
    <<"r", "u", "b", "y">> }

HybridCatalogs ==
  { << [id |-> 1, name |-> Onyx], [id |-> 2, name |-> Ruby], [id |-> 3, name |-> Jade] >>,
    << [id |-> 5, name |-> JadeRing], [id |-> 3, name |-> Jade], [id |-> 1, name |-> Onyx] >>,
    << [id |-> 3, name |-> Jade], [id |-> 4, name |-> JadeUpper] >> }

\* candidates of an extraction response: without a confidence, with one in
\* [0, 1], and with one outside of it (nothing on the way from the response
\* to hybridExtract checks the range)
HybridCandidatePool ==
  { Candidate(Onyx, NoConfidence, "s"),
    Candidate(Onyx, [n |-> 3, d |-> 10], "s"),
    Candidate(Onyx, [n |-> 3, d |-> 2], "s"),
    Candidate(Ruby, NoConfidence, "s"),
    Candidate(Ruby, [n |-> 1, d |-> 1], "s"),
    Candidate(Ruby, [n |-> -1, d |-> 5], "s"),
    Candidate(Jade, [n |-> 3, d |-> 10], "s"),
    Candidate(Unknown, NoConfidence, "s") }

\* entries of a confirmation response
HybridValidItemPool ==
  { ValidItem(Jade, TRUE, "s"), ValidItem(Jade, TRUE, ""), ValidItem(JadeUpper, TRUE, "s"),
    ValidItem(Onyx, TRUE, "s"), ValidItem(Unknown, TRUE, "s"), ValidItem(Jade, FALSE, "") }

\* the sequences of at most n elements of S
SeqUpTo(S, n) == UNION { [1..k -> S] : k \in 0..n }

HybridExtractionResponses ==
  { [kind |-> kind, items |-> items, usage |-> ExtractionUsage] :
      kind \in {"parsed", "content"}, items \in SeqUpTo(HybridCandidatePool, MaxOracleItems) }
  \cup { FailedExtraction(kind) : kind \in FailureKinds }

HybridConfirmationResponses ==
  { [kind |-> kind, validItems |-> validItems, usage |-> ConfirmationUsage] :
      kind \in {"parsed", "content"}, validItems \in SeqUpTo(HybridValidItemPool, MaxValidItems) }
  \cup { FailedConfirmation(kind) : kind \in FailureKinds }

\* ---- voting ----
VotingContent == <<"O", "n", "y", "x", " ", "a", "n", "d", " ", "j", "a", "d", "e", ".">>

VotingCatalog ==
  << [id |-> 1, name |-> Onyx], [id |-> 2, name |-> Ruby], [id |-> 3, name |-> Jade] >>

\* numRuns: one run, the default of hybridExtractWithVoting (3) and the
\* default of VOTING_RUNS and of _hybridExtractInlineVoting (5)
NumRunsChoices == {1, 3, 5}

\* votingThreshold: everything passes, the default 0.6, unanimity
ThresholdChoices == { [n |-> 0, d |-> 1], [n |-> 3, d |-> 5], [n |-> 1, d |-> 1] }

VotingExtractionResponses ==
  { [kind |-> "parsed", usage |-> ExtractionUsage,
     items |-> << Candidate(Onyx, [n |-> 9, d |-> 10], "s"), Candidate(Ruby, NoConfidence, "s") >>],
    [kind |-> "parsed", usage |-> ExtractionUsage,
     items |-> << Candidate(Onyx, NoConfidence, "t"), Candidate(Jade, [n |-> 1, d |-> 2], "s") >>],
    FailedExtraction("rejects") }

VotingConfirmationResponses ==
  { [kind |-> "parsed", usage |-> ConfirmationUsage,
     validItems |-> << ValidItem(Jade, TRUE, "s") >>],
    [kind |-> "parsed", usage |-> ConfirmationUsage,
     validItems |-> << ValidItem(Jade, TRUE, "s"), ValidItem(Jade, TRUE, "s") >>],
    FailedConfirmation("rejects"),
    FailedConfirmation("badJson") }

\* the responses the oracle gives in the call under study
ExtractionResponses ==
  IF cEntry = "hybridExtract" THEN HybridExtractionResponses ELSE VotingExtractionResponses

ConfirmationResponses ==
  IF cEntry = "hybridExtract" THEN HybridConfirmationResponses ELSE VotingConfirmationResponses

\* before a call of hybridExtract
HybridInit ==
  /\ ValidatorUnused
  /\ LexicalUnused
  /\ RestUnused
  /\ cPc = "idle"
  /\ cEntry = "hybridExtract"
  /\ cContent \in HybridContents
  /\ cAllItems \in HybridCatalogs
  /\ cGreedy \in BOOLEAN
  /\ cNumRuns = 1
  /\ cThreshold = [n |-> 0, d |-> 1]
  /\ cRuns = <<>>
  /\ cResult = <<>>
  /\ cOracle = <<>>

\* before a call of hybridExtractWithVoting or _hybridExtractInlineVoting
VotingInit ==
  /\ ValidatorUnused
  /\ LexicalUnused
  /\ RestUnused
  /\ cPc = "idle"
  /\ cEntry \in {"hybridExtractWithVoting", "_hybridExtractInlineVoting"}
  /\ cContent = VotingContent
  /\ cAllItems = VotingCatalog
  /\ cGreedy = FALSE
  /\ cNumRuns \in NumRunsChoices
  /\ cThreshold \in ThresholdChoices
  /\ cRuns = <<>>
  /\ cResult = <<>>
  /\ cOracle = <<>>

\* process.env.VOTING_RUNS: not set, "0", "1", "3", negative, not a number
EnvRunsChoices ==
  { Undefined, <<"0">>, <<"1">>, <<"3">>, <<"-", "1">>, <<"a", "b", "c">> }

\* process.env.VOTING_THRESHOLD: not set, "0", "0.5", "1"
EnvThresholdChoices == { Undefined, <<"0">>, <<"0", ".", "5">>, <<"1">> }

\* before a call of hybridExtractInline
InlineInit ==
  /\ ValidatorUnused
  /\ LexicalUnused
  /\ RetryUnused
  /\ CacheUnused
  /\ PipelineUnused
  /\ envRuns \in EnvRunsChoices
  /\ envThreshold \in EnvThresholdChoices
  /\ cPc = "idle"
  /\ cEntry = "hybridExtractInline"
  /\ cContent = VotingContent
  /\ cAllItems = VotingCatalog
  /\ cGreedy = TRUE
  /\ cNumRuns = 0
  /\ cThreshold = [n |-> 0, d |-> 1]
  /\ cRuns = <<>>
  /\ cResult = <<>>
  /\ cOracle = <<>>

\* numRuns runs started on the same lexical matches
startRuns(numRuns, algoMatches) == [i \in 1..numRuns |-> startRun(algoMatches)]

\* what a request got, as far as the run can tell responses apart: the kind
\* of the response, the usage it reports and, for a confirmation response,
\* the lowercased names it marks relevant
received(response, validItems) ==
  [kind     |-> response.kind,
   usage    |-> response.usage,
   relevant |-> {ToLowerCase(validItems[k].name) :
                   k \in {j \in 1..Len(validItems) : validItems[j].isRelevant}}]

\* a request that has not settled
NoResponse == [kind |-> "none", usage |-> ZeroUsage, relevant |-> {}]

\* the call: every run does its lexical match and sends its extraction
\* request (the inline single pass matches greedily)
StartCall ==
  /\ cPc = "idle"
  /\ cPc' = "running"
  /\ cRuns' = startRuns(cNumRuns,
                        algorithmicSearch(cContent, cAllItems,
                                          IF cEntry = "_hybridExtractInlineVoting"
                                            THEN TRUE ELSE cGreedy))
  /\ cOracle' = [i \in 1..cNumRuns |-> [extraction |-> NoResponse, confirmation |-> NoResponse]]
  /\ UNCHANGED <<cEntry, cContent, cAllItems, cGreedy, cNumRuns, cThreshold, cResult>>
  /\ UNCHANGED <<validatorVars, lexicalVars, restVars>>

\* hybridExtractInline delegating to entry with numRuns and votingThreshold
\* (the single pass is one run and has no threshold)
InlineDelegates(entry, numRuns, votingThreshold) ==
  /\ cEntry' = entry
  /\ cNumRuns' = numRuns
  /\ cThreshold' = votingThreshold
  /\ cRuns' = startRuns(numRuns, algorithmicSearch(cContent, cAllItems, TRUE))
  /\ cOracle' = [i \in 1..numRuns |-> [extraction |-> NoResponse, confirmation |-> NoResponse]]

\* the call of hybridExtractInline
InlineCall ==
  /\ cPc = "idle"
  /\ cEntry = "hybridExtractInline"
  /\ cPc' = "running"
  /\ IF VOTING_RUNS(envRuns) > 0
       THEN InlineDelegates(inlineDelegate(VOTING_RUNS(envRuns)), VOTING_RUNS(envRuns),
                            VOTING_THRESHOLD(envThreshold))
       ELSE InlineDelegates(inlineDelegate(VOTING_RUNS(envRuns)), 1, cThreshold)
  /\ UNCHANGED <<cContent, cAllItems, cGreedy, cResult>>
  /\ UNCHANGED <<validatorVars, lexicalVars, restVars>>

\* the runs become allRuns; the call settles when Promise.all does
Settle(allRuns, pc) ==
  /\ cRuns' = allRuns
  /\ cPc' = pc
  /\ cResult' = IF cPc = "running" /\ pc = "returned"
                  THEN callResult(cEntry, allRuns, cNumRuns, cThreshold)
                  ELSE cResult
  /\ UNCHANGED <<cEntry, cContent, cAllItems, cGreedy, cNumRuns, cThreshold>>
  /\ UNCHANGED <<validatorVars, lexicalVars, restVars>>

\* the same with the outcome of Promise.all over allRuns
SettleRuns(allRuns) == Settle(allRuns, callPc(cPc, allRuns))

\* a run after its extraction request has settled with response
afterExtract(entry, run, allItems, response) ==
  IF entry \in {"_hybridExtractInlineVoting", "_hybridExtractInlineSinglePass"}
    THEN inlineAfterExtract(run, allItems, inlineResult(response))
    ELSE hybridAfterExtract(run, allItems, extractItemCandidates(response))

\* the extraction request of run i settles with response
ExtractSettles(i, response) ==
  /\ cPc # "idle"
  /\ i \in 1..Len(cRuns)
  /\ cRuns[i].pc = "extract"
  /\ SettleRuns([cRuns EXCEPT ![i] = afterExtract(cEntry, cRuns[i], cAllItems, response)])
  /\ cOracle' = [cOracle EXCEPT ![i].extraction = received(response, <<>>)]

\* the confirmation request of run i settles with response
ConfirmSettles(i, response) ==
  /\ cPc # "idle"
  /\ i \in 1..Len(cRuns)
  /\ cRuns[i].pc = "confirm"
  /\ SettleRuns([cRuns EXCEPT ![i] =
                   hybridAfterConfirm(cRuns[i],
                                      validateAlgoCandidates(cRuns[i].algoOnlyCandidates,
                                                             response))])
  /\ cOracle' = [cOracle EXCEPT ![i].confirmation = received(response, response.validItems)]

(***************************************************************************)
(* A call of withRetry.                                                    *)
(***************************************************************************)
\* the options tried: those of fetchStructuredResponse, fewer retries, and a
\* cap the backoff reaches
RetryOptionsChoices ==
  { Options(maxRetries, DefaultBaseDelayMs, maxDelayMs) :
      maxRetries \in 0..MaxRetriesTried, maxDelayMs \in {DefaultMaxDelayMs, 1500} }

\* the errors the wrapped request throws
RetryErrors ==
  { Error(<<"E", "C", "O", "N", "N", "R", "E", "S", "E", "T">>, <<"E", "r", "r", "o", "r">>, 0, <<"s", "o", "c", "k", "e", "t", " ", "h", "a", "n", "g", " ", "u", "p">>),
    Error(NoField, <<"A", "b", "o", "r", "t", "E", "r", "r", "o", "r">>, 0, <<"a", "b", "o", "r", "t", "e", "d">>),
    Error(NoField, <<"E", "r", "r", "o", "r">>, 503, <<"u", "n", "a", "v", "a", "i", "l", "a", "b", "l", "e">>),
    Error(NoField, <<"E", "r", "r", "o", "r">>, 429, <<"r", "a", "t", "e", " ", "l", "i", "m", "i", "t">>),
    Error(NoField, <<"E", "r", "r", "o", "r">>, 400, <<"t", "i", "m", "e", "o", "u", "t", " ", "i", "s", " ", "i", "n", "v", "a", "l", "i", "d">>),
    Error(NoField, <<"E", "r", "r", "o", "r">>, 401, <<"b", "a", "d", " ", "k", "e", "y">>),
    Error(NoField, <<"E", "r", "r", "o", "r">>, 0, <<"R", "e", "q", "u", "e", "s", "t", " ", "t", "i", "m", "e", "o", "u", "t">>),
    Error(NoField, <<"S", "y", "n", "t", "a", "x", "E", "r", "r", "o", "r">>, 0, <<"b", "a", "d", " ", "J", "S", "O", "N">>) }

\* Math.random() as a percentage
RandomPercents == {0, 50, 99}

\* the completion the request resolves with
Completion == <<"c", "o", "m", "p", "l", "e", "t", "i", "o", "n">>

RetryInit ==
  /\ ValidatorUnused
  /\ CallUnused
  /\ LexicalUnused
  /\ ConfigUnused
  /\ CacheUnused
  /\ PipelineUnused
  /\ rPc = "idle"
  /\ rOptions \in RetryOptionsChoices
  /\ rAttempt = 0
  /\ rCalls = 0
  /\ lastError = <<>>
  /\ rDelay = 0
  /\ rSleeps = 0
  /\ rSettled = <<>>

\* withRetry(fn, options) up to the first "await fn()"
RetryCall ==
  /\ rPc = "idle"
  /\ rPc' = "attempting"
  /\ rAttempt' = 1
  /\ rCalls' = rCalls + 1
  /\ UNCHANGED <<rOptions, lastError, rDelay, rSleeps, rSettled>>
  /\ UNCHANGED <<validatorVars, callVars, lexicalVars, configVars, cacheVars, pipelineVars>>

\* fn() resolves: "return await fn()"
FnResolves ==
  /\ rPc = "attempting"
  /\ rPc' = "returned"
  /\ rSettled' = Completion
  /\ UNCHANGED <<rOptions, rAttempt, rCalls, lastError, rDelay, rSleeps>>
  /\ UNCHANGED <<validatorVars, callVars, lexicalVars, configVars, cacheVars, pipelineVars>>

\* fn() rejects with error: the catch block, up to "throw error" or "await
\* sleep(delay)"
FnRejects(error, randomPercent) ==
  /\ rPc = "attempting"
  /\ lastError' = error
  /\ IF givesUp(rAttempt, rOptions.maxRetries, error)
       THEN /\ rPc' = "thrown"
            /\ rSettled' = error
            /\ UNCHANGED <<rDelay, rSleeps>>
       ELSE /\ rPc' = "sleeping"
            /\ rSettled' = rSettled
            /\ rDelay' = calculateBackoff(rAttempt, rOptions.baseDelayMs,
                                          rOptions.maxDelayMs, randomPercent)
            /\ rSleeps' = rSleeps + 1
  /\ UNCHANGED <<rOptions, rAttempt, rCalls>>
  /\ UNCHANGED <<validatorVars, callVars, lexicalVars, configVars, cacheVars, pipelineVars>>

\* the sleep ends: attempt++ and the next "await fn()"
SleepEnds ==
  /\ rPc = "sleeping"
  /\ rPc' = "attempting"
  /\ rAttempt' = rAttempt + 1
  /\ rCalls' = rCalls + 1
  /\ UNCHANGED <<rOptions, lastError, rDelay, rSleeps, rSettled>>
  /\ UNCHANGED <<validatorVars, callVars, lexicalVars, configVars, cacheVars, pipelineVars>>

\* the caller reads the completion withRetry returned: it accepts it, or
\* throws because the completion has no message or no readable payload
CallerReads(readable) ==
  /\ rPc = "returned"
  /\ rPc' = IF readable THEN "parsed" ELSE "malformed"
  /\ UNCHANGED <<rOptions, rAttempt, rCalls, lastError, rDelay, rSleeps, rSettled>>
  /\ UNCHANGED <<validatorVars, callVars, lexicalVars, configVars, cacheVars, pipelineVars>>
(***************************************************************************)
(* The item cache of src/index.js.  The database is read in no time; a     *)
(* list is identified by the time it was read at.                          *)
(***************************************************************************)
CACHE_TTL_MS == 3600000

\* the clock advances in steps of a third of the time-to-live
ClockStepMs == CACHE_TTL_MS \div 3

\* a list that was never fetched (null)
NoList == -1

\* const itemCache = { items: null, significantItems: null, expiresAt: 0 }
EmptyItemCache == [items |-> NoList, significantItems |-> NoList, expiresAt |-> 0]

\* nothing served yet
NothingServed == [list |-> "none", fetchedAt |-> 0, at |-> 0]

CacheInit ==
  /\ ValidatorUnused
  /\ CallUnused
  /\ LexicalUnused
  /\ ConfigUnused
  /\ RetryUnused
  /\ PipelineUnused
  /\ clock = 0
  /\ itemCache = EmptyItemCache
  /\ served = NothingServed

\* time passes
ClockAdvances ==
  /\ clock < MaxClockSteps * ClockStepMs
  /\ clock' = clock + ClockStepMs
  /\ UNCHANGED <<itemCache, served>>
  /\ UNCHANGED <<validatorVars, callVars, lexicalVars, configVars, retryVars, pipelineVars>>

\* a cache with expiry times per list: the test of a getter reads the
\* expiry of its own list
freshPerList(list, fetchedAt, now, expiresAt) ==
  fetchedAt # NoList /\ now < fetchedAt + CACHE_TTL_MS

\* "itemCache.<list> && now < itemCache.expiresAt"
fresh(list, fetchedAt, now, expiresAt) == fetchedAt # NoList /\ now < expiresAt

\* getAllItemsCached()
getAllItemsCached ==
  /\ IF fresh("items", itemCache.items, clock, itemCache.expiresAt)
       THEN /\ served' = [list |-> "items", fetchedAt |-> itemCache.items, at |-> clock]
            /\ UNCHANGED itemCache
       ELSE /\ itemCache' = [itemCache EXCEPT !.items = clock,
                                              !.expiresAt = clock + CACHE_TTL_MS]
            /\ served' = [list |-> "items", fetchedAt |-> clock, at |-> clock]
  /\ UNCHANGED clock
  /\ UNCHANGED <<validatorVars, callVars, lexicalVars, configVars, retryVars, pipelineVars>>

\* getSignificantItemsCached()
getSignificantItemsCached ==
  /\ IF fresh("significantItems", itemCache.significantItems, clock, itemCache.expiresAt)
       THEN /\ served' = [list |-> "significantItems",
                          fetchedAt |-> itemCache.significantItems, at |-> clock]
            /\ UNCHANGED itemCache
       ELSE /\ itemCache' = [itemCache EXCEPT !.significantItems = clock,
                                              !.expiresAt = clock + CACHE_TTL_MS]
            /\ served' = [list |-> "significantItems", fetchedAt |-> clock, at |-> clock]
  /\ UNCHANGED clock
  /\ UNCHANGED <<validatorVars, callVars, lexicalVars, configVars, retryVars, pipelineVars>>
(***************************************************************************)
(* The post pipeline of src/index.js: runPostPipeline, called at start and *)
(* by setInterval, syncNewPosts (src/syncPosts.js) and pollAndProcess.     *)
(* A run is a call of runPostPipeline that passed the flag test:           *)
(*   pc     "sync" in syncNewPosts, "poll" before findMany of               *)
(*          pollAndProcess, "loop" in its for loop, "ended"                 *)
(*   queue  the posts of postsToProcess not yet processed                   *)
(*   found  the ids findMany returned; polled tells that it returned        *)
(***************************************************************************)
\* a post as syncNewPosts creates it: isAnalyzed defaults to false; result
\* is what the latest processOnePost returned for it (NoResult before the
\* first), failedIn and succeededIn the runs of its latest failure and
\* success (0: none)
NoResult == [success |-> FALSE, itemsFailed |-> 0, extracted |-> FALSE]

NewPost == [isAnalyzed |-> FALSE, result |-> NoResult, failedIn |-> 0, succeededIn |-> 0]

NewRun == [pc |-> "sync", queue |-> <<>>, found |-> {}, polled |-> FALSE]

PipelineInit ==
  /\ ValidatorUnused
  /\ CallUnused
  /\ LexicalUnused
  /\ ConfigUnused
  /\ RetryUnused
  /\ CacheUnused
  /\ pipelineRunning = FALSE
  /\ pPosts = <<>>
  /\ pRuns = <<>>
  /\ pSkipped = 0

\* a pipeline that starts whatever the flag says
startsAnyway(running) == TRUE

\* "if (pipelineRunning) return" not taken
mayStart(running) == ~running

\* runPostPipeline() up to its first await
runPostPipeline ==
  /\ Len(pRuns) + pSkipped < MaxPipelineCalls
  /\ IF mayStart(pipelineRunning)
       THEN /\ pipelineRunning' = TRUE
            /\ pRuns' = Append(pRuns, NewRun)
            /\ UNCHANGED pSkipped
       ELSE /\ pSkipped' = pSkipped + 1
            /\ UNCHANGED <<pipelineRunning, pRuns>>
  /\ UNCHANGED pPosts
  /\ UNCHANGED <<validatorVars, callVars, lexicalVars, configVars, retryVars, cacheVars>>

\* run i ends: "finally { pipelineRunning = false }"
Ends(i, runs) ==
  /\ pRuns' = [runs EXCEPT ![i].pc = "ended"]
  /\ pipelineRunning' = FALSE

\* syncNewPosts of run i saves n new posts and returns, or (n = -1) throws,
\* which the catch of runPostPipeline swallows
syncNewPosts(i, n) ==
  /\ i \in 1..Len(pRuns)
  /\ pRuns[i].pc = "sync"
  /\ IF n = -1
       THEN /\ Ends(i, pRuns)
            /\ UNCHANGED pPosts
       ELSE /\ Len(pPosts) + n <= MaxPosts
            /\ pPosts' = pPosts \o [k \in 1..n |-> NewPost]
            /\ pRuns' = [pRuns EXCEPT ![i].pc = "poll"]
            /\ UNCHANGED pipelineRunning
  /\ UNCHANGED pSkipped
  /\ UNCHANGED <<validatorVars, callVars, lexicalVars, configVars, retryVars, cacheVars>>

RECURSIVE unanalyzedUpTo(_, _)
\* the ids of the first k posts with isAnalyzed false, ascending
unanalyzedUpTo(posts, k) ==
  IF k = 0 THEN <<>>
  ELSE IF posts[k].isAnalyzed THEN unanalyzedUpTo(posts, k - 1)
  ELSE Append(unanalyzedUpTo(posts, k - 1), k)

\* prisma.post.findMany({ where: { isAnalyzed: false } })
findUnanalyzed(posts) == unanalyzedUpTo(posts, Len(posts))

\* pollAndProcess of run i up to the loop: findMany returns (there may be
\* nothing to process) or rejects
pollAndProcess(i, found) ==
  /\ i \in 1..Len(pRuns)
  /\ pRuns[i].pc = "poll"
  /\ IF found /\ findUnanalyzed(pPosts) # <<>>
       THEN /\ pRuns' = [pRuns EXCEPT ![i].pc = "loop",
                                      ![i].queue = findUnanalyzed(pPosts),
                                      ![i].found = {findUnanalyzed(pPosts)[k] :
                                                      k \in 1..Len(findUnanalyzed(pPosts))},
                                      ![i].polled = TRUE]
            /\ UNCHANGED pipelineRunning
       ELSE Ends(i, [pRuns EXCEPT ![i].polled = found])
  /\ UNCHANGED <<pPosts, pSkipped>>
  /\ UNCHANGED <<validatorVars, callVars, lexicalVars, configVars, retryVars, cacheVars>>

\* what processOnePost returns: extraction is "throws" when
\* hybridExtractInline (or anything else in the try block) threw, else
\* "returned"; itemResults holds, for each significant item extracted, whether
\* its prediction, save and notification all went through
processOnePost(extraction, itemResults) ==
  IF extraction = "throws"
    THEN [success |-> FALSE, itemsFailed |-> 0, extracted |-> FALSE]
    ELSE [success     |-> \A k \in 1..Len(itemResults) : itemResults[k],
          itemsFailed |-> Cardinality({k \in 1..Len(itemResults) : ~itemResults[k]}),
          extracted   |-> TRUE]

\* a loop body that marks the post whatever processOnePost returned
processedAlwaysMarked(post, i, result, updated) ==
  [isAnalyzed  |-> TRUE,
   result      |-> result,
   failedIn    |-> IF result.success THEN post.failedIn ELSE i,
   succeededIn |-> IF result.success THEN i ELSE post.succeededIn]

\* the body of "for (const post of postsToProcess)" for one post: result is
\* what processOnePost returned in run i; on success prisma.post.update went
\* through (updated) or rejected
processed(post, i, result, updated) ==
  [isAnalyzed  |-> post.isAnalyzed \/ (result.success /\ updated),
   result      |-> result,
   failedIn    |-> IF result.success THEN post.failedIn ELSE i,
   succeededIn |-> IF result.success THEN i ELSE post.succeededIn]

\* run i with the head of its queue done
queueAdvanced(runs, i) ==
  [runs EXCEPT ![i].queue = Tail(runs[i].queue),
               ![i].pc = IF Tail(runs[i].queue) = <<>> THEN "ended" ELSE "loop"]

\* the results of the items of one post
ItemResultChoices ==
  UNION {[1..n -> BOOLEAN] : n \in 0..MaxSignificantItems}

\* one iteration of the loop of run i.  processOnePost returns, or throws
\* because the notification in its catch block failed (notified = FALSE);
\* after a success the update goes through or rejects.  A throw or a
\* rejected update leaves the loop through the catch of pollAndProcess
processNext(i, extraction, itemResults, notified, updated) ==
  /\ i \in 1..Len(pRuns)
  /\ pRuns[i].pc = "loop"
  /\ IF extraction = "throws" /\ ~notified
       THEN /\ Ends(i, pRuns)
            /\ UNCHANGED pPosts
       ELSE /\ pPosts' = [pPosts EXCEPT ![Head(pRuns[i].queue)] =
                            processed(pPosts[Head(pRuns[i].queue)], i,
                                      processOnePost(extraction, itemResults), updated)]
            /\ IF processOnePost(extraction, itemResults).success /\ ~updated
                 THEN Ends(i, pRuns)
                 ELSE /\ pRuns' = queueAdvanced(pRuns, i)
                      /\ pipelineRunning' = IF Tail(pRuns[i].queue) = <<>>
                                              THEN FALSE ELSE pipelineRunning
  /\ UNCHANGED pSkipped
  /\ UNCHANGED <<validatorVars, callVars, lexicalVars, configVars, retryVars, cacheVars>>
(***************************************************************************)
(* Specifications.                                                         *)
(***************************************************************************)
vars == <<validatorVars, callVars, lexicalVars, restVars>>

\* the steps of an extraction call
NextCall ==
  \/ StartCall
  \/ \E i \in 1..Len(cRuns) : \E response \in ExtractionResponses : ExtractSettles(i, response)
  \/ \E i \in 1..Len(cRuns) : \E response \in ConfirmationResponses : ConfirmSettles(i, response)

SpecValidator == ValidatorInit /\ [][ValidateCall]_vars

SpecHybrid == HybridInit /\ [][NextCall]_vars

SpecVoting == VotingInit /\ [][NextCall]_vars


\* the steps of the lexical matcher's calls
NextLexical == LexicalCall \/ LexicalOtherCall \/ LexicalCallAgain

SpecLexical == LexicalInit /\ [][NextLexical]_vars

\* the steps of a call of hybridExtractInline
NextInline ==
  \/ InlineCall
  \/ \E i \in 1..Len(cRuns) : \E response \in ExtractionResponses : ExtractSettles(i, response)

SpecInline == InlineInit /\ [][NextInline]_vars

\* the steps of a call of withRetry
NextRetry ==
  \/ RetryCall
  \/ FnResolves
  \/ \E error \in RetryErrors : \E randomPercent \in RandomPercents : FnRejects(error, randomPercent)
  \/ SleepEnds
  \/ \E readable \in BOOLEAN : CallerReads(readable)

SpecRetry == RetryInit /\ [][NextRetry]_vars

\* the same, where the request settles and the timer of sleep fires
SpecRetryLive ==
  /\ RetryInit
  /\ [][NextRetry]_vars
  /\ WF_vars(FnResolves \/ \E error \in RetryErrors : \E randomPercent \in RandomPercents :
                              FnRejects(error, randomPercent))
  /\ WF_vars(SleepEnds)

SpecCascade == CascadeInit /\ [][ValidateCall]_vars

\* the item cache over time
NextCache == ClockAdvances \/ getAllItemsCached \/ getSignificantItemsCached

SpecCache == CacheInit /\ [][NextCache]_vars

\* the steps of the post pipeline
NextPipeline ==
  \/ runPostPipeline
  \/ \E i \in 1..Len(pRuns) : \E n \in -1..MaxPosts : syncNewPosts(i, n)
  \/ \E i \in 1..Len(pRuns) : \E found \in BOOLEAN : pollAndProcess(i, found)
  \/ \E i \in 1..Len(pRuns) :
       \E extraction \in {"returned", "throws"} : \E itemResults \in ItemResultChoices :
         \E notified \in BOOLEAN : \E updated \in BOOLEAN :
           processNext(i, extraction, itemResults, notified, updated)

SpecPipeline == PipelineInit /\ [][NextPipeline]_vars
(***************************************************************************)
(* Properties of the voting engine and of the hybrid combiner.             *)
(***************************************************************************)
IsVoting == cEntry \in {"hybridExtractWithVoting", "_hybridExtractInlineVoting"}

\* the runs that threw, the runs that returned
FailedRuns == {i \in 1..Len(cRuns) : cRuns[i].pc = "rejected"}
ReturnedRuns == {i \in 1..Len(cRuns) : cRuns[i].pc = "returned"}

\* every run has returned or thrown
AllRunsSettled == cRuns # <<>> /\ FailedRuns \cup ReturnedRuns = 1..Len(cRuns)

\* C1: a voting call surfaces an error only when every one of its runs has
\* failed: once the call has rejected, no run of it has returned a result
\* (one run's failure does not discard the result of a sibling run).
C1_ErrorOnlyWhenAllRunsFail ==
  (IsVoting /\ cPc = "rejected") => ReturnedRuns = {}

\* C2: when k of the numRuns runs have failed and the others have returned
\* (0 < k < numRuns), the call returns a result whose
\* votingStats.runsExecuted is the number of runs that returned, numRuns - k.
C2_RunsExecutedCountsSurvivors ==
  (/\ IsVoting
   /\ AllRunsSettled
   /\ FailedRuns # {}
   /\ ReturnedRuns # {})
  => /\ cPc = "returned"
     /\ cResult.votingStats.runsExecuted = cNumRuns - Cardinality(FailedRuns)

\* the item ids in the output of some run, and the ids in the vote output
SeenIds ==
  UNION {{cRuns[r].items[k].itemId : k \in 1..Len(cRuns[r].items)} : r \in 1..Len(cRuns)}
OutputIds == {cResult.items[k].itemId : k \in 1..Len(cResult.items)}

\* how often the runs output the id
Appearances(id) ==
  Cardinality({rk \in UNION {{<<r, k>> : k \in 1..Len(cRuns[r].items)} : r \in 1..Len(cRuns)} :
                 cRuns[rk[1]].items[rk[2]].itemId = id})

\* C3: an item seen in any run is in the vote output if and only if
\* appearances / numRuns >= threshold (the boundary included).
C3_OutputIffThresholdMet ==
  (IsVoting /\ cPc = "returned")
  => \A id \in SeenIds :
       id \in OutputIds <=> Appearances(id) * cThreshold.d >= cThreshold.n * cNumRuns

\* 5 runs at threshold 0.6: an item in 3 runs is accepted, one in 2 is not
C3_Witness ==
  /\ IsVoting
  /\ cPc = "returned"
  /\ cNumRuns = 5
  /\ cThreshold = [n |-> 3, d |-> 5]
  /\ \E id \in SeenIds : Appearances(id) = 3 /\ id \in OutputIds
  /\ \E id \in SeenIds : Appearances(id) = 2 /\ id \notin OutputIds

\* a run that returned nothing
EmptyRun == [startRun(<<>>) EXCEPT !.pc = "returned"]

\* what voting accepts, with threshold 0, over the runs of the call and one
\* more run that returned nothing
VotedWithOneMoreRun ==
  votedItemsOf(itemVotesOf(Append(cRuns, EmptyRun)), cNumRuns + 1, [n |-> 0, d |-> 1])

\* the appearanceRatio of item id in voted
RatioIn(voted, id) ==
  voted[CHOOSE j \in 1..Len(voted) : voted[j].itemId = id].votingStats.appearanceRatio

\* C4 as stated: with the run outcomes held fixed, one more run never
\* decreases the appearanceRatio of an item.
C4_MoreRunsNeverLowerRatio ==
  (IsVoting /\ cPc = "returned")
  => \A voted \in {VotedWithOneMoreRun} : \A k \in 1..Len(cResult.items) :
       FLeq(cResult.items[k].votingStats.appearanceRatio,
            RatioIn(voted, cResult.items[k].itemId))

\* C4, amended: with the run outcomes held fixed, one more run never
\* increases the appearanceRatio of an item (appearances / numRuns falls as
\* numRuns grows).
C4_MoreRunsNeverRaiseRatio ==
  (IsVoting /\ cPc = "returned")
  => \A voted \in {VotedWithOneMoreRun} : \A k \in 1..Len(cResult.items) :
       FLeq(RatioIn(voted, cResult.items[k].itemId),
            cResult.items[k].votingStats.appearanceRatio)

\* an output item whose ratio is strictly lower with one more run
C4_Witness ==
  /\ IsVoting
  /\ cPc = "returned"
  /\ \E voted \in {VotedWithOneMoreRun} : \E k \in 1..Len(cResult.items) :
       FLess(RatioIn(voted, cResult.items[k].itemId),
             cResult.items[k].votingStats.appearanceRatio)

\* C5: in every vote output, appearances <= totalRuns and appearanceRatio is
\* in [0,1]; for the numRuns of the call the ratio does not decrease when
\* appearances grows.
C5_RatioInUnitInterval ==
  (IsVoting /\ cPc = "returned")
  => /\ \A k \in 1..Len(cResult.items) :
          /\ cResult.items[k].votingStats.appearances <= cResult.items[k].votingStats.totalRuns
          /\ FLeq([n |-> 0, d |-> 1], cResult.items[k].votingStats.appearanceRatio)
          /\ FLeq(cResult.items[k].votingStats.appearanceRatio, [n |-> 1, d |-> 1])
     /\ \A a, b \in 0..cNumRuns :
          a <= b => FLeq(appearanceRatio(a, cNumRuns), appearanceRatio(b, cNumRuns))

\* C6: in the list one hybridExtract run returns no itemId occurs twice, and
\* the categories both / llm / algo_validated share no itemId.
C6_UniqueItemIdPerRun ==
  (cEntry = "hybridExtract" /\ cPc = "returned")
  => /\ \A j, k \in 1..Len(cResult.items) :
          cResult.items[j].itemId = cResult.items[k].itemId => j = k
     /\ \A j, k \in 1..Len(cResult.items) :
          cResult.items[j].itemId = cResult.items[k].itemId
            => cResult.items[j].source = cResult.items[k].source

(***************************************************************************)
(* Properties of one hybridExtract run.                                    *)
(***************************************************************************)
\* the runs of the call that have returned
ReturnedRunRecords == {cRuns[i] : i \in ReturnedRuns}

\* the elements of a sequence
Elements(seq) == {seq[i] : i \in 1..Len(seq)}

\* the confidence the oracle reported for a validated item, 0.9 when it
\* reported none
OracleConfidence(v) == IF v.confidence = NoConfidence THEN Frac(9, 10) ELSE v.confidence

\* the larger and the smaller of two fractions
Larger(a, b) == IF a.n * b.d >= b.n * a.d THEN a ELSE b
Smaller(a, b) == IF a.n * b.d <= b.n * a.d THEN a ELSE b

\* C16: in a run of hybridExtract a 'both' mention has the confidence
\* max(oracle confidence, 1.0), an 'llm' mention min(oracle confidence or 0.9
\* when absent, 0.8), an 'algo_validated' mention exactly 0.7; so every
\* 'llm' mention of a run is strictly below every 'both' mention of it.
C16_ConfidenceBySource ==
  cEntry = "hybridExtract" =>
    \A run \in ReturnedRunRecords :
      /\ \A item \in Elements(run.items) :
           /\ item.source \in {"both", "llm", "algo_validated"}
           /\ item.source = "both" =>
                \E v \in Elements(run.llmValidated) :
                  /\ v.itemId = item.itemId
                  /\ item.confidence = Larger(OracleConfidence(v), Frac(1, 1))
           /\ item.source = "llm" =>
                \E v \in Elements(run.llmValidated) :
                  /\ v.itemId = item.itemId
                  /\ item.confidence = Smaller(OracleConfidence(v), Frac(4, 5))
           /\ item.source = "algo_validated" => item.confidence = Frac(7, 10)
      /\ \A a, b \in Elements(run.items) :
           (a.source = "llm" /\ b.source = "both") =>
              a.confidence.n * b.confidence.d < b.confidence.n * a.confidence.d

\* a run returned mentions of all three sources: a 'both' mention the oracle
\* gave 0.3, an 'llm' mention the oracle gave 1.0 and an 'algo_validated' one
C16_Witness ==
  /\ cEntry = "hybridExtract"
  /\ \E run \in ReturnedRunRecords :
       /\ \E item \in Elements(run.items), v \in Elements(run.llmValidated) :
            /\ item.source = "both"
            /\ v.itemId = item.itemId
            /\ v.confidence = Frac(3, 10)
       /\ \E item \in Elements(run.items), v \in Elements(run.llmValidated) :
            /\ item.source = "llm"
            /\ v.itemId = item.itemId
            /\ v.confidence = Frac(1, 1)
       /\ \E item \in Elements(run.items) : item.source = "algo_validated"

\* a confidence lies in [0, 1]
InUnitInterval(c) == 0 <= c.n /\ c.n <= c.d

\* C17: every mention a call returns (hybridExtract and the voting
\* functions alike) has a confidence in [0, 1], for every oracle response the
\* run accepts, a confidence outside the nominal range included, and for
\* every pattern of appearances.
C17_ConfidenceInUnitInterval ==
  cPc = "returned" => \A item \in Elements(cResult.items) : InUnitInterval(item.confidence)

\* the catalog entries a run matched lexically and did not get validated
\* from the oracle
LexicalOnly(run) ==
  {m.item : m \in {a \in Elements(run.algoMatches) :
                     \A v \in Elements(run.llmValidated) : v.itemId # a.id}}

\* the phases of run i of hybridExtract are in order: no confirmation
\* request before the extraction has settled, and then one, for exactly the
\* lexical-only entries, if and only if there are any
PhasesInOrder(i) ==
  /\ cOracle[i].confirmation.kind # "none" => cOracle[i].extraction.kind # "none"
  /\ cRuns[i].pc = "extract" =>
       cRuns[i].calls = 1 /\ cOracle[i].extraction.kind = "none"
  /\ cRuns[i].pc \in {"confirm", "returned"} =>
       /\ cRuns[i].calls = (IF LexicalOnly(cRuns[i]) = {} THEN 1 ELSE 2)
       /\ Elements(cRuns[i].algoOnlyCandidates) = LexicalOnly(cRuns[i])
       /\ Len(cRuns[i].algoOnlyCandidates) = Cardinality(LexicalOnly(cRuns[i]))
       /\ (cRuns[i].calls = 1 => cOracle[i].confirmation.kind = "none")

\* a lexical-only entry is in the output of the returned run i, as
\* algo_validated, exactly when the confirmation response marks it relevant
ConfirmedOnly(i) ==
  \A c \in LexicalOnly(cRuns[i]) :
    /\ (\E item \in Elements(cRuns[i].items) : item.itemId = c.id)
         <=> ToLowerCase(c.name) \in cOracle[i].confirmation.relevant
    /\ \A item \in Elements(cRuns[i].items) :
         item.itemId = c.id => item.source = "algo_validated"

\* C18: a hybridExtract run first completes the oracle extraction and the
\* lexical match; only then, and only if some lexically matched entries were
\* not validated from the oracle, it makes one confirmation call for exactly
\* those; such an entry is in the output (as algo_validated) if and only if
\* the confirmation marks it relevant.
C18_TwoPhasesConfirmedOnly ==
  cEntry = "hybridExtract" =>
    \A i \in 1..Len(cRuns) :
      /\ PhasesInOrder(i)
      /\ cRuns[i].pc = "returned" => ConfirmedOnly(i)

\* the kinds of a malformed response: no message, neither parsed payload nor
\* content, content that is not valid JSON
MalformedKinds == {"noMessage", "noPayload", "badJson"}

\* C19: a malformed oracle response counts as an empty candidate set for
\* its call and does not fail the run, for the extraction call and for the
\* confirmation call alike: the run does not throw, and after a malformed
\* confirmation response it returns the mentions validated from the oracle.
C19_MalformedIsEmptyCandidateSet ==
  cEntry = "hybridExtract" =>
    \A i \in 1..Len(cRuns) :
      /\ cOracle[i].extraction.kind \in MalformedKinds => cRuns[i].pc # "rejected"
      /\ cOracle[i].confirmation.kind \in MalformedKinds =>
           /\ cRuns[i].pc = "returned"
           /\ Len(cRuns[i].items) = Len(cRuns[i].llmValidated)


\* the three token counters of a usage
UsageCounters == {"promptTokens", "completionTokens", "reasoningTokens"}

\* the confirmation request of run i was not made, or it failed: it was
\* rejected or its payload could not be parsed
ConfirmationNotCounted(i) == cOracle[i].confirmation.kind \in {"none", "rejects", "badJson"}

\* what the confirmation request of run i adds to a counter
ConfirmationTokens(i, counter) ==
  IF ConfirmationNotCounted(i) THEN 0 ELSE cOracle[i].confirmation.usage[counter]

RECURSIVE RunsTotal(_, _)
\* a counter summed over the usage the runs in S returned
RunsTotal(S, counter) ==
  IF S = {} THEN 0
  ELSE LET i == CHOOSE j \in S : TRUE
       IN cRuns[i].usage[counter] + RunsTotal(S \ {i}, counter)

\* C20: token usage is aggregated by summation. The usage a returned
\* hybridExtract run reports is, counter by counter, the usage of its extraction
\* request plus the usage of its confirmation request (nothing when that
\* request was not made, was rejected or was unreadable), and the usage a voting
\* call returns is, counter by counter, the sum of the usage of all its runs.
C20_UsageIsSummed ==
  /\ cEntry \in {"hybridExtract", "hybridExtractWithVoting"} =>
       \A i \in ReturnedRuns : \A counter \in UsageCounters :
         cRuns[i].usage[counter] =
           cOracle[i].extraction.usage[counter] + ConfirmationTokens(i, counter)
  /\ (cPc = "returned" /\ cEntry \in {"hybridExtractWithVoting", "_hybridExtractInlineVoting"}) =>
       \A counter \in UsageCounters :
         cResult.usage[counter] = RunsTotal(1..Len(cRuns), counter)

\* a voting call of three runs or more has returned; one run made both
\* requests and got both answered, one made only the extraction request, and
\* one had its confirmation request fail
C20_Witness ==
  /\ cPc = "returned"
  /\ cEntry = "hybridExtractWithVoting"
  /\ cNumRuns >= 3
  /\ \E i \in ReturnedRuns : cOracle[i].confirmation.kind = "parsed"
  /\ \E i \in ReturnedRuns : cOracle[i].confirmation.kind = "none"
  /\ \E i \in ReturnedRuns : cOracle[i].confirmation.kind \in {"rejects", "badJson"}

\* the ids the lexical matcher found for a run, and the ids its oracle
\* extraction validated
LexicalIds(run) == {run.algoMatches[k].id : k \in 1..Len(run.algoMatches)}
OracleIds(run) == {run.llmValidated[k].itemId : k \in 1..Len(run.llmValidated)}

\* the lowercased names of the candidates a run submitted for confirmation
SubmittedNames(run) ==
  {ToLowerCase(run.algoOnlyCandidates[k].name) : k \in 1..Len(run.algoOnlyCandidates)}

\* C28: every algo_validated mention hybridExtract outputs has the id of an
\* item the lexical matcher found and the oracle extraction of that run did
\* not validate, and its name is one the confirmation response marked
\* relevant: names the response makes up, names of items not submitted and
\* entries with isRelevant = false add nothing.
C28_ConfirmedWithinSubmitted ==
  cEntry = "hybridExtract" =>
    \A i \in ReturnedRuns : \A item \in Elements(cRuns[i].items) :
      item.source = "algo_validated" =>
        /\ item.itemId \in LexicalIds(cRuns[i]) \ OracleIds(cRuns[i])
        /\ ToLowerCase(item.name) \in SubmittedNames(cRuns[i])
        /\ ToLowerCase(item.name) \in cOracle[i].confirmation.relevant

\* a run has returned an algo_validated mention although its confirmation
\* response also marked relevant a name that was not submitted, and the
\* oracle extraction had validated another item
C28_Witness ==
  /\ cEntry = "hybridExtract"
  /\ \E i \in ReturnedRuns :
       /\ \E item \in Elements(cRuns[i].items) : item.source = "algo_validated"
       /\ cOracle[i].confirmation.relevant \ SubmittedNames(cRuns[i]) # {}
       /\ OracleIds(cRuns[i]) # {}
(***************************************************************************)
(* Properties of the voting aggregation.                                   *)
(***************************************************************************)
\* a voting call has returned
VotingReturned ==
  /\ cPc = "returned"
  /\ cEntry \in {"hybridExtractWithVoting", "_hybridExtractInlineVoting"}

\* where the runs report the item id: <<run, position in the run's items>>
AppearancesOf(id) ==
  UNION { {<<i, k>> : k \in {j \in 1..Len(cRuns[i].items) : cRuns[i].items[j].itemId = id}} :
            i \in 1..Len(cRuns) }

RECURSIVE ConfidenceSum(_)
\* the sum of the confidences reported at the appearances in S
ConfidenceSum(S) ==
  IF S = {} THEN Frac(0, 1)
  ELSE LET a == CHOOSE b \in S : TRUE
       IN FAdd(cRuns[a[1]].items[a[2]].confidence, ConfidenceSum(S \ {a}))

\* the mean confidence over the appearances in S (S not empty)
MeanConfidence(S) == FDivInt(ConfidenceSum(S), Cardinality(S))

\* the source tags reported at the appearances in S
SourceTags(S) == {cRuns[a[1]].items[a[2]].source : a \in S}

\* 0.5 * ratio + 0.3 * avg + 0.2 * consistency
Blend(ratio, avg, consistency) ==
  FAdd(FMul(Frac(5, 10), ratio), FAdd(FMul(Frac(3, 10), avg), FMul(Frac(2, 10), consistency)))

\* the statistics and the confidence voting must give an accepted item whose
\* appearances are S
VotedAsSpecified(item, S) ==
  /\ item.votingStats.avgConfidence = MeanConfidence(S)
  /\ item.votingStats.sourceConsistency = Frac(1, Cardinality(SourceTags(S)))
  /\ (item.votingStats.sourceConsistency = Frac(1, 1)) <=> (Cardinality(SourceTags(S)) = 1)
  /\ item.confidence =
       Larger(item.votingStats.avgConfidence,
              Blend(item.votingStats.appearanceRatio,
                    item.votingStats.avgConfidence,
                    item.votingStats.sourceConsistency))

Exchanged(allRuns, i, j) ==
  [k \in 1..Len(allRuns) |->
     IF k = i THEN allRuns[j] ELSE IF k = j THEN allRuns[i] ELSE allRuns[k]]

\* an output mention: the accepted id, its statistics, its final confidence
\* and the snippet and source of its representative
VotedMention(item) ==
  [itemId      |-> item.itemId,
   votingStats |-> item.votingStats,
   confidence  |-> item.confidence,
   snippet     |-> item.snippet,
   source      |-> item.source]

\* the output mentions of the call for its runs in the order allRuns
VotedMentions(allRuns) ==
  {VotedMention(item) :
     item \in Elements(votingResult(cEntry, allRuns, cNumRuns, cThreshold).items)}

\* C23: the vote result is order-independent. The runs are collected in
\* launch order whatever order they complete in, and for the per-run results
\* of a returned voting call the output mentions (accepted ids, appearances,
\* appearanceRatio, avgConfidence, sourceConsistency, final confidence,
\* representative snippet and source) are the same when any two runs change
\* places, hence under every permutation of the runs.
C23_VoteIsOrderIndependent ==
  VotingReturned =>
    /\ {VotedMention(item) : item \in Elements(cResult.items)} = VotedMentions(cRuns)
    /\ \A i \in 1..Len(cRuns) : \A j \in (i + 1)..Len(cRuns) :
         VotedMentions(Exchanged(cRuns, i, j)) = VotedMentions(cRuns)
(***************************************************************************)
(* Properties of hybridExtractInline and its configuration.                *)
(***************************************************************************)
\* hybridExtractInline has been called and has delegated
InlineDelegated == cEntry \in {"_hybridExtractInlineVoting", "_hybridExtractInlineSinglePass"}

\* the number a configured VOTING_THRESHOLD stands for
ConfiguredThreshold ==
  IF envThreshold = <<"0">> THEN Frac(0, 1)
  ELSE IF envThreshold = <<"0", ".", "5">> THEN Frac(1, 2)
  ELSE Frac(1, 1)

\* C25: voting in hybridExtractInline is enabled only by a VOTING_RUNS
\* greater than 0: with VOTING_RUNS set to 0 the call takes the single pass
\* and makes exactly one extraction run, and a configured VOTING_THRESHOLD
\* (0 included) is the threshold the voting path uses.
C25_ConfiguredVoting ==
  InlineDelegated =>
    /\ envRuns = <<"0">> =>
         (cEntry = "_hybridExtractInlineSinglePass" /\ Len(cRuns) = 1)
    /\ (cEntry = "_hybridExtractInlineVoting" /\ envThreshold # Undefined) =>
         cThreshold = ConfiguredThreshold

\* the voting statistics of an output item; a single-pass item carries none
StatsOf(item) ==
  IF "votingStats" \in DOMAIN item
    THEN [appearances |-> item.votingStats.appearances, totalRuns |-> item.votingStats.totalRuns]
    ELSE [appearances |-> 0, totalRuns |-> 0]

\* what identifies an output mention: its item, its confidence, its source
\* and its voting statistics
Mention(item) ==
  [itemId |-> item.itemId, confidence |-> item.confidence, source |-> item.source,
   stats |-> StatsOf(item)]

\* the mentions of a list of output items
Mentions(items) == {Mention(item) : item \in Elements(items)}

\* C22: the single-pass mode is voting with numRuns = 1 and threshold = 0
\* through the same aggregation: it makes one extraction run, returns exactly
\* the item ids of that run, each with appearances = 1 and totalRuns = 1, and
\* agrees with the voting entry point called with (1, 0) on the same oracle
\* output.
C22_SinglePassIsVotingOneZero ==
  (cPc = "returned" /\ cEntry = "_hybridExtractInlineSinglePass") =>
    /\ Len(cRuns) = 1
    /\ {item.itemId : item \in Elements(cResult.items)} =
         {item.itemId : item \in Elements(cRuns[1].items)}
    /\ \A item \in Elements(cResult.items) :
         StatsOf(item) = [appearances |-> 1, totalRuns |-> 1]
    /\ Mentions(cResult.items) =
         Mentions(votingResult("_hybridExtractInlineVoting", cRuns, 1, Frac(0, 1)).items)
(***************************************************************************)
(* Properties of the candidate validator.                                  *)
(***************************************************************************)
RECURSIVE EditRowCells(_, _, _, _, _)
\* row i of the edit-distance table of a and b, columns 0..j
EditRowCells(prev, a, bc, i, j) ==
  IF j = 0 THEN <<i>>
  ELSE LET left == EditRowCells(prev, a, bc, i, j - 1)
       IN Append(left, Min3(prev[j] + (IF bc = a[j] THEN 0 ELSE 1),
                            left[j] + 1,
                            prev[j + 1] + 1))

RECURSIVE EditRow(_, _, _)
EditRow(a, b, i) ==
  IF i = 0 THEN [j \in 1..(Len(a) + 1) |-> j - 1]
  ELSE EditRowCells(EditRow(a, b, i - 1), a, b[i], i, Len(a))

\* the edit distance of two strings by its defining recurrence:
\* D(i,j) = min(D(i-1,j) + 1, D(i,j-1) + 1, D(i-1,j-1) + [a_j # b_i])
EditDistance(a, b) == EditRow(a, b, Len(b))[Len(a) + 1]

\* catalog positions whose name equals the candidate's name up to case
SameNameUpToCase(k) ==
  {i \in 1..Len(vAllItems) :
     ToLowerCase(vAllItems[i].name) = ToLowerCase(vCandidates[k].name)}

\* C7 as stated: a candidate whose name equals a catalog entry's name
\* exactly or up to case resolves, by the exact branch, to that very entry.
C7_SameEntry ==
  vPc = "done" =>
    \A k \in 1..Len(vCandidates) : \A i \in SameNameUpToCase(k) :
      /\ vResolved[k].branch = "exact"
      /\ vResolved[k].itemId = vAllItems[i].id

\* C7 amended: such a candidate always resolves by the exact branch, to the
\* LAST catalog entry whose name equals its name up to case (hence to that
\* very entry whenever no other entry shares the name up to case).
C7_ExactBranchLastEntry ==
  vPc = "done" =>
    \A k \in 1..Len(vCandidates) :
      LET same == SameNameUpToCase(k)
      IN same # {} =>
           /\ vResolved[k].branch = "exact"
           /\ vResolved[k].itemId =
                vAllItems[CHOOSE i \in same : \A j \in same : j <= i].id

\* a candidate resolved by the exact branch although its name differs in
\* case from the entry's, in a catalog where two entries share that name
C7_Witness ==
  /\ vPc = "done"
  /\ \E k \in 1..Len(vCandidates) :
       /\ Cardinality(SameNameUpToCase(k)) = 2
       /\ vResolved[k].branch = "exact"
       /\ \E i \in SameNameUpToCase(k) :
            /\ vAllItems[i].id = vResolved[k].itemId
            /\ vAllItems[i].name # vCandidates[k].name

\* candidates (positions) the cascade resolved to item id
ResolvedTo(id) == {k \in 1..Len(vCandidates) : vResolved[k].itemId = id}

\* C8: the returned list holds each itemId at most once, and the element
\* for an id is the FIRST candidate in input order that resolved to it,
\* with that candidate's own name, snippet and context.
C8_FirstWinsDedup ==
  vPc = "done" =>
    /\ \A a, b \in 1..Len(vValidated) :
         a # b => vValidated[a].itemId # vValidated[b].itemId
    /\ \A a \in 1..Len(vValidated) :
         LET ks == ResolvedTo(vValidated[a].itemId)
         IN /\ ks # {}
            /\ LET first == CHOOSE k \in ks : \A j \in ks : k <= j
               IN /\ vValidated[a].snippet = vCandidates[first].snippet
                  /\ vValidated[a].context = vCandidates[first].context
                  /\ vValidated[a].name = vCandidates[first].name
    /\ \A k \in 1..Len(vCandidates) :
         vResolved[k].itemId # Null.id =>
           \E a \in 1..Len(vValidated) : vValidated[a].itemId = vResolved[k].itemId

\* two candidates resolved to the same entry and only the first was kept
C8_Witness ==
  /\ vPc = "done"
  /\ \E k1, k2 \in 1..Len(vCandidates) :
       /\ k1 < k2
       /\ vResolved[k1].itemId # Null.id
       /\ vResolved[k1].itemId = vResolved[k2].itemId
       /\ vCandidates[k1].name # vCandidates[k2].name
       /\ \E a \in 1..Len(vValidated) :
            /\ vValidated[a].itemId = vResolved[k1].itemId
            /\ vValidated[a].snippet = vCandidates[k1].snippet

\* C9: every returned element carries the id and canonical name of an entry
\* of the supplied catalog; an unmatched candidate is omitted and the
\* candidates after it are still processed; the output is never longer
\* than the input.
C9_CatalogIdsOnly ==
  vPc = "done" =>
    /\ \A a \in 1..Len(vValidated) :
         \E i \in 1..Len(vAllItems) :
           /\ vAllItems[i].id = vValidated[a].itemId
           /\ vAllItems[i].name = vValidated[a].itemName
    /\ Len(vValidated) <= Len(vCandidates)
    /\ Len(vValidated) =
         Cardinality({vResolved[k].itemId : k \in 1..Len(vCandidates)} \ {Null.id})

\* an unmatched candidate followed by a matched one, which is in the output
C9_Witness ==
  /\ vPc = "done"
  /\ \E k1, k2 \in 1..Len(vCandidates) :
       /\ k1 < k2
       /\ vResolved[k1].branch = "none"
       /\ vResolved[k2].itemId # Null.id
       /\ \E a \in 1..Len(vValidated) : vValidated[a].itemId = vResolved[k2].itemId
  /\ Len(vValidated) < Len(vCandidates)

\* edit distance between candidate k and catalog entry i, both lowercased
FuzzyDistance(k, i) ==
  EditDistance(ToLowerCase(vCandidates[k].name), ToLowerCase(vAllItems[i].name))

\* C10: a candidate that no exact, normalized or variant lookup resolves is
\* resolved by the fuzzy branch to the entry at the smallest edit distance,
\* the earliest in catalog order among equals, provided the distance is at
\* most 2; with no entry within distance 2 it is dropped.
C10_FuzzyClosest ==
  vPc = "done" =>
    \A k \in 1..Len(vCandidates) :
      vResolved[k].branch \in {"fuzzy", "none"} =>
        LET within == {i \in 1..Len(vAllItems) : FuzzyDistance(k, i) <= 2}
        IN IF within = {}
             THEN vResolved[k].branch = "none" /\ vResolved[k].itemId = Null.id
             ELSE /\ vResolved[k].branch = "fuzzy"
                  /\ LET best == CHOOSE i \in within : \A j \in within :
                                   \/ FuzzyDistance(k, i) < FuzzyDistance(k, j)
                                   \/ FuzzyDistance(k, i) = FuzzyDistance(k, j) /\ i <= j
                     IN vResolved[k].itemId = vAllItems[best].id

\* a candidate resolved by the fuzzy branch with a farther entry placed
\* before the closest one in the catalog
C10_Witness ==
  /\ vPc = "done"
  /\ \E k \in 1..Len(vCandidates) :
       /\ vResolved[k].branch = "fuzzy"
       /\ \E i, j \in 1..Len(vAllItems) :
            /\ i < j
            /\ FuzzyDistance(k, i) = 2
            /\ FuzzyDistance(k, j) = 1
            /\ vResolved[k].itemId = vAllItems[j].id


\* the catalog positions each branch can find for candidate k
ExactFinds(k) ==
  {i \in 1..Len(vAllItems) : ToLowerCase(vAllItems[i].name) = ToLowerCase(vCandidates[k].name)}
NormalizedFinds(k) ==
  {i \in 1..Len(vAllItems) : normalizeName(vAllItems[i].name) = normalizeName(vCandidates[k].name)}
VariantFinds(k) ==
  {i \in 1..Len(vAllItems) :
     Elements(getNameVariants(vAllItems[i].name))
       \cap Elements(getNameVariants(vCandidates[k].name)) # {}}
FuzzyFinds(k) == {i \in 1..Len(vAllItems) : FuzzyDistance(k, i) <= 2}

\* the first branch, in the order exact, normalized, variant, fuzzy, that
\* finds an entry for candidate k, and what it finds
DecidingBranch(k) ==
  IF ExactFinds(k) # {} THEN [branch |-> "exact", finds |-> ExactFinds(k)]
  ELSE IF NormalizedFinds(k) # {} THEN [branch |-> "normalized", finds |-> NormalizedFinds(k)]
  ELSE IF VariantFinds(k) # {} THEN [branch |-> "variant", finds |-> VariantFinds(k)]
  ELSE IF FuzzyFinds(k) # {} THEN [branch |-> "fuzzy", finds |-> FuzzyFinds(k)]
  ELSE [branch |-> "none", finds |-> {}]

\* candidate k resolved as the branch deciding it says
ResolvedBy(k, deciding) ==
  /\ vResolved[k].branch = deciding.branch
  /\ deciding.branch = "none" => vResolved[k].itemId = 0
  /\ deciding.branch # "none" => vResolved[k].itemId \in {vAllItems[i].id : i \in deciding.finds}

\* C26: validateItemCandidates applies its branches in the order exact,
\* normalized, variant, fuzzy and stops at the first that finds an entry: a
\* later branch decides a candidate only when every earlier one found nothing,
\* so a candidate that the normalized (or the variant) branch matches to an
\* entry resolves to it even when another entry is within edit distance 2.
C26_CascadeOrder ==
  vPc = "done" => \A k \in 1..Len(vCandidates) : ResolvedBy(k, DecidingBranch(k))

\* a candidate resolved by the normalized branch and a candidate resolved by
\* the variant branch, each with another catalog entry within edit distance 2
C26_Witness ==
  /\ vPc = "done"
  /\ \E k \in 1..Len(vCandidates) :
       /\ vResolved[k].branch = "normalized"
       /\ \E i \in FuzzyFinds(k) : vAllItems[i].id # vResolved[k].itemId
  /\ \E k \in 1..Len(vCandidates) :
       /\ vResolved[k].branch = "variant"
       /\ \E i \in FuzzyFinds(k) : vAllItems[i].id # vResolved[k].itemId
(***************************************************************************)
(* Properties of the lexical matcher.                                      *)
(***************************************************************************)
\* whether a word boundary (\b) lies behind position i of s (0: in front of s)
BoundaryBehind(s, i) == WordAt(s, i) # WordAt(s, i + 1)

\* phrase occurs in content, letter case ignored, delimited by word
\* boundaries
OccursAsWord(content, phrase) ==
  \E p \in 0..(Len(content) - Len(phrase)) :
    /\ BoundaryBehind(content, p)
    /\ BoundaryBehind(content, p + Len(phrase))
    /\ \A q \in 1..Len(phrase) : LowerChar(content[p + q]) = LowerChar(phrase[q])

\* the ids reported by a result of algorithmicSearch
ReportedIds(found) == {found[i].id : i \in 1..Len(found)}

\* what the call that has just returned gave for the arguments lContent,
\* lAllItems, lGreedy
LexicalResults ==
  IF lPc = "called" THEN {lFirst} ELSE IF lPc = "again" THEN {lSecond} ELSE {}

\* C11: a catalog entry whose lowercased name is shorter than the minimum
\* length of 4 characters is never reported by algorithmicSearch, with greedy
\* off and with greedy on, whatever the article text.
C11_ShortNamesNeverReported ==
  \A found \in LexicalResults :
    \A i \in 1..Len(lAllItems) :
      Len(ToLowerCase(lAllItems[i].name)) < 4 => lAllItems[i].id \notin ReportedIds(found)

\* a short name stands in the article as a word, greedy is on, another entry
\* of the catalog is reported and the short one is not
C11_Witness ==
  /\ lPc = "called"
  /\ lGreedy
  /\ lFirst # <<>>
  /\ \E i \in 1..Len(lAllItems) :
       /\ Len(lAllItems[i].name) < 4
       /\ OccursAsWord(lContent, lAllItems[i].name)
       /\ lAllItems[i].id \notin ReportedIds(lFirst)

\* the entry of a result of algorithmicSearch for an id
ReportedAs(found, id) == {found[i] : i \in {j \in 1..Len(found) : found[j].id = id}}

\* the words of a catalog name, lowercased
NameWords(name) == SplitWords(ToLowerCase(name))

\* catalog entries (positions) whose name is one word of the single-word
\* blocklist
BlocklistedSingleWordNames ==
  {i \in 1..Len(lAllItems) :
     /\ Len(NameWords(lAllItems[i].name)) = 1
     /\ NameWords(lAllItems[i].name)[1] \in SINGLE_WORD_BLOCKLIST}

\* C12 as stated: with greedy on, a catalog entry whose name is a single word
\* of the single-word blocklist is never reported, even when the word stands
\* in the article.
C12_BlocklistedNameNeverReported ==
  \A found \in LexicalResults :
    lGreedy =>
      \A i \in BlocklistedSingleWordNames : lAllItems[i].id \notin ReportedIds(found)

\* C12, amended: with greedy on, no word of the single-word blocklist is ever
\* the matched phrase of a greedy match, even when it stands in the article;
\* a catalog entry whose whole name is such a word is reported only as an
\* exact match, and then its name stands in the article as a word.
C12_BlocklistedWordNeverGreedy ==
  \A found \in LexicalResults :
    lGreedy =>
      /\ \A e \in {found[j] : j \in 1..Len(found)} :
           e.matchType = "greedy" => e.matchedPrefix \notin SINGLE_WORD_BLOCKLIST
      /\ \A i \in BlocklistedSingleWordNames :
           \A e \in ReportedAs(found, lAllItems[i].id) :
             /\ e.matchType = "exact"
             /\ OccursAsWord(lContent, lAllItems[i].name)

\* greedy is on and the first word of a two-word name is in the single-word
\* blocklist only; it stands in the article as a word and the entry is not
\* reported
C12_Witness ==
  /\ lPc = "called"
  /\ lGreedy
  /\ \E i \in 1..Len(lAllItems) :
       /\ Len(NameWords(lAllItems[i].name)) = 2
       /\ NameWords(lAllItems[i].name)[1] \in SINGLE_WORD_BLOCKLIST \ ALGO_BLOCKLIST
       /\ OccursAsWord(lContent, NameWords(lAllItems[i].name)[1])
       /\ lAllItems[i].id \notin ReportedIds(lFirst)

PassesFilters(name) ==
  /\ Len(ToLowerCase(name)) >= 4
  /\ ToLowerCase(name) \notin ALGO_BLOCKLIST
  /\ Trim(StripTrailingParens(ToLowerCase(name))) \notin ALGO_BLOCKLIST

\* the first len words of a catalog name, joined by single spaces
WordPrefix(name, len) == JoinWords(NameWords(name), len)

\* the article shares with the name only its leading word, and that word is
\* blocklisted
SharesOnlyBlocklistedLeadingWord(content, name) ==
  /\ ~OccursAsWord(content, name)
  /\ Len(NameWords(name)) >= 2
  /\ \A len \in 2..(Len(NameWords(name)) - 1) : ~OccursAsWord(content, WordPrefix(name, len))
  /\ OccursAsWord(content, WordPrefix(name, 1))
  /\ WordPrefix(name, 1) \in ALGO_BLOCKLIST \cup SINGLE_WORD_BLOCKLIST

\* the article and the catalog of the scenario
ScenarioContent == <<"T", "h", "e", " ", "D", "r", "a", "g", "o", "n", " ", "p", "l", "a", "t", "e", "b", "o", "d", "y", " ", "h", "a", "s", " ", "r", "e", "c", "e", "i", "v", "e", "d", " ", "a", " ", "b", "u", "f", "f">>
ScenarioCatalog == << [id |-> 1, name |-> <<"D", "r", "a", "g", "o", "n", " ", "p", "l", "a", "t", "e", "b", "o", "d", "y">>],
                      [id |-> 2, name |-> <<"D", "r", "a", "g", "o", "n", " ", "c", "h", "a", "i", "n", "b", "o", "d", "y">>] >>

\* C14: an entry is reported with matchType exact exactly when it passes the
\* length and blocklist filters and its lowercased full name stands in the
\* article delimited by word boundaries; an entry whose full name does not
\* occur and that shares with the article only a blocklisted leading word is
\* not reported; "The Dragon platebody has received a buff" with the catalog
\* {1: Dragon platebody, 2: Dragon chainbody} gives {1: exact} only, with
\* greedy off and on.
C14_ExactIffNameOccurs ==
  \A found \in LexicalResults :
    /\ \A i \in 1..Len(lAllItems) :
         /\ (\E e \in ReportedAs(found, lAllItems[i].id) : e.matchType = "exact")
              <=> (PassesFilters(lAllItems[i].name) /\ OccursAsWord(lContent, lAllItems[i].name))
         /\ lAllItems[i].id \in ReportedIds(found)
              => ~SharesOnlyBlocklistedLeadingWord(lContent, lAllItems[i].name)
    /\ (lContent = ScenarioContent /\ lAllItems = ScenarioCatalog)
         => found = << [id |-> 1, item |-> ScenarioCatalog[1],
                        matchType |-> "exact", matchedPrefix |-> <<>>] >>

\* the scenario was run with greedy on
C14_Witness ==
  /\ lPc = "called"
  /\ lGreedy
  /\ lContent = ScenarioContent
  /\ lAllItems = ScenarioCatalog
  /\ Len(lFirst) = 1
  /\ SharesOnlyBlocklistedLeadingWord(lContent, lAllItems[2].name)

\* the words the greedy search works on: those of the lowercased name
\* without its trailing parentheses and without possessive 's
GreedyWords(name) ==
  SplitWords(StripPossessives(Trim(StripTrailingParens(ToLowerCase(name))), 1))

\* whether the prefix of len words qualifies: at least 4 characters, in
\* neither the general blocklist nor the blocklist for its word count, and
\* in the article at word boundaries
Qualifies(content, prefix, len) ==
  /\ Len(prefix) >= 4
  /\ prefix \notin ALGO_BLOCKLIST
  /\ (len = 1 => prefix \notin SINGLE_WORD_BLOCKLIST)
  /\ (len >= 2 => prefix \notin MULTI_WORD_BLOCKLIST)
  /\ OccursAsWord(content, prefix)

\* the word counts, from 1 to N-1, of the prefixes of a name that qualify
QualifyingLengths(content, name) ==
  {len \in 1..(Len(GreedyWords(name)) - 1) :
     Qualifies(content, JoinWords(GreedyWords(name), len), len)}

\* C15: with greedy on, an entry that passes the filters and has no exact
\* match is reported as a greedy match with the longest of its prefixes of
\* N-1 down to 1 words that qualifies, and is not reported when none does;
\* with greedy off no greedy match is reported; an exact match carries no
\* matched phrase.
C15_LongestQualifyingPrefix ==
  \A found \in LexicalResults :
    /\ \A e \in {found[j] : j \in 1..Len(found)} :
         /\ e.matchType = "greedy" => lGreedy
         /\ e.matchType = "exact" => e.matchedPrefix = <<>>
    /\ lGreedy =>
         \A i \in 1..Len(lAllItems) :
           (PassesFilters(lAllItems[i].name) /\ ~OccursAsWord(lContent, lAllItems[i].name)) =>
             \A lens \in {QualifyingLengths(lContent, lAllItems[i].name)} :
               IF lens = {}
                 THEN lAllItems[i].id \notin ReportedIds(found)
                 ELSE ReportedAs(found, lAllItems[i].id) =
                        { [id |-> lAllItems[i].id,
                           item |-> lAllItems[i],
                           matchType |-> "greedy",
                           matchedPrefix |-> JoinWords(GreedyWords(lAllItems[i].name), MaxOf(lens))] }

\* greedy is on; for one entry two prefixes qualify and the longer one is
\* reported; another entry, none of whose prefixes qualifies, is not reported
C15_Witness ==
  /\ lPc = "called"
  /\ lGreedy
  /\ \E i, k \in 1..Len(lAllItems) :
       /\ Cardinality(QualifyingLengths(lContent, lAllItems[i].name)) = 2
       /\ \E e \in ReportedAs(lFirst, lAllItems[i].id) :
            /\ e.matchType = "greedy"
            /\ Len(SplitWords(e.matchedPrefix)) = 2
       /\ PassesFilters(lAllItems[k].name)
       /\ Len(GreedyWords(lAllItems[k].name)) >= 2
       /\ OccursAsWord(lContent, JoinWords(GreedyWords(lAllItems[k].name), 2))
       /\ lAllItems[k].id \notin ReportedIds(lFirst)

(***************************************************************************)
(* Properties of withRetry.                                                *)
(***************************************************************************)
\* the call has ended: it returned (and the caller may have read the
\* completion) or it threw
RetrySettled == rPc \in {"returned", "parsed", "malformed", "thrown"}
RetryReturned == rPc \in {"returned", "parsed", "malformed"}

\* what holds of a call of withRetry at every moment
RetryBounded ==
  /\ rCalls <= rOptions.maxRetries + 1
  /\ rOptions.maxRetries = OracleMaxRetries => rCalls <= 4
  /\ RetryReturned => (rSettled = Completion /\ rCalls = rSleeps + 1)
  /\ rSleeps > 0 => (0 <= rDelay /\ rDelay <= rOptions.maxDelayMs)
  /\ rPc = "sleeping" => rCalls = rSleeps
  /\ (rPc = "thrown" /\ rCalls = rOptions.maxRetries + 1) =>
       (rSettled = lastError /\ rCalls = rSleeps + 1)

\* C24: withRetry has a bounded attempt count and always terminates. It
\* invokes the wrapped function at most maxRetries + 1 times (4 for oracle
\* requests), returns the result of the first successful attempt without
\* another attempt, sleeps at most maxDelayMs between two attempts, rethrows
\* the error of the last allowed attempt, and once it has invoked the function
\* it ends by returning or throwing.
C24_RetryBoundedAndTerminates ==
  /\ []RetryBounded
  /\ (rPc = "attempting") ~> RetrySettled

\* an oracle request has failed four times, after three sleeps, the last of
\* them cut to maxDelayMs, and withRetry has thrown the last error
C24_Witness ==
  /\ rPc = "thrown"
  /\ rOptions.maxRetries = OracleMaxRetries
  /\ rCalls = 4
  /\ rSleeps = 3
  /\ rDelay = rOptions.maxDelayMs
  /\ rSettled = lastError

\* a network error: a connection error code or a fetch-level error
IsNetworkError(error) ==
  \/ error.code \in {<<"E", "C", "O", "N", "N", "R", "E", "S", "E", "T">>, <<"E", "T", "I", "M", "E", "D", "O", "U", "T">>, <<"E", "N", "O", "T", "F", "O", "U", "N", "D">>}
  \/ error.name \in {<<"F", "e", "t", "c", "h", "E", "r", "r", "o", "r">>, <<"A", "b", "o", "r", "t", "E", "r", "r", "o", "r">>}
  \/ Includes(error.message, <<"E", "C", "O", "N", "N", "R", "E", "S", "E", "T">>)

\* a timeout
IsTimeout(error) == error.code = <<"E", "T", "I", "M", "E", "D", "O", "U", "T">> \/ Includes(error.message, <<"t", "i", "m", "e", "o", "u", "t">>)

\* an HTTP 5xx or an HTTP 429
IsServerOrRateLimit(error) == error.status \in 500..599 \/ error.status = 429

\* the errors the default shouldRetry must refuse
NotToBeRetried(error) ==
  ~IsNetworkError(error) /\ ~IsTimeout(error) /\ ~IsServerOrRateLimit(error)

\* fn has thrown, and its latest error is one shouldRetry refuses
RefusedError == lastError # <<>> /\ ~isRetryableError(lastError)

\* C27: when the wrapped function fails with an error that shouldRetry
\* refuses (by default every error that is not a network error, a timeout, an
\* HTTP 5xx or an HTTP 429), withRetry rethrows that error at once: no sleep
\* and no attempt follows, so a first failure of that kind ends the call
\* after exactly one attempt; and an error the caller raises on a malformed
\* completion, after withRetry has returned, causes no other request.
C27_NonRetryableThrownAtOnce ==
  /\ (lastError # <<>> /\ NotToBeRetried(lastError)) => ~isRetryableError(lastError)
  /\ RefusedError =>
       /\ rPc = "thrown"
       /\ rSettled = lastError
       /\ rCalls = rSleeps + 1
  /\ (RefusedError /\ rAttempt = 1) => (rCalls = 1 /\ rSleeps = 0)
  /\ rPc = "malformed" => rCalls = rSleeps + 1

\* an oracle request (three retries allowed) has failed once with HTTP 401
\* and withRetry has thrown after that one attempt, without a sleep
C27_Witness ==
  /\ rPc = "thrown"
  /\ rOptions.maxRetries = OracleMaxRetries
  /\ lastError.status = 401
  /\ rCalls = 1
  /\ rSleeps = 0
(***************************************************************************)
(* Properties of the item cache.                                           *)
(***************************************************************************)
\* C29: the item cache never serves data older than its time-to-live: the
\* list a cached getter returns was fetched from the database at most
\* CACHE_TTL_MS before the call, whatever calls of the two getters came
\* before; a refresh of one list does not extend the lifetime of the other.
C29_ServedWithinTtl ==
  served.list # "none" => served.at - served.fetchedAt <= CACHE_TTL_MS
(***************************************************************************)
(* The post pipeline                                                       *)
(***************************************************************************)
\* the runs that have not ended
LiveRuns == {i \in 1..Len(pRuns) : pRuns[i].pc # "ended"}

\* post p failed in a run before run i and has not succeeded before run i
FailedBefore(p, i) ==
  /\ pPosts[p].failedIn # 0
  /\ pPosts[p].failedIn < i
  /\ pPosts[p].succeededIn = 0 \/ pPosts[p].succeededIn >= i

\* C30: a post is marked isAnalyzed only after processOnePost returned
\* success for it (the extraction returned and no item failed); a post whose
\* processing failed stays unanalyzed and is among the posts every later run
\* of pollAndProcess finds; at most one run is in progress, and the running
\* flag is set exactly while one is, so it is cleared when a run ends,
\* whether it ended normally or on an error
C30_AnalyzedOnlyAfterSuccess ==
  /\ \A p \in 1..Len(pPosts) :
       /\ pPosts[p].isAnalyzed =>
            /\ pPosts[p].succeededIn # 0
            /\ pPosts[p].result.success
            /\ pPosts[p].result.extracted
            /\ pPosts[p].result.itemsFailed = 0
       /\ pPosts[p].failedIn # 0 /\ pPosts[p].succeededIn = 0 => ~pPosts[p].isAnalyzed
       /\ \A i \in 1..Len(pRuns) :
            pRuns[i].polled /\ FailedBefore(p, i) => p \in pRuns[i].found
  /\ Cardinality(LiveRuns) <= 1
  /\ pipelineRunning <=> LiveRuns # {}
  /\ \A i \in 1..Len(pRuns) : i < Len(pRuns) => pRuns[i].pc = "ended"

\* a post failed in one run, a tick was skipped, and a later run found the
\* post again and marked it after a success; that run has ended
C30_Witness ==
  /\ pSkipped > 0
  /\ \E p \in 1..Len(pPosts) :
       /\ pPosts[p].isAnalyzed
       /\ pPosts[p].failedIn # 0
       /\ pPosts[p].succeededIn > pPosts[p].failedIn
       /\ p \in pRuns[pPosts[p].succeededIn].found
  /\ ~pipelineRunning
====
